---------------------------- MODULE Spec2Model ----------------------------
(***************************************************************************)
(* A model of the Meow language implementation (src/meow): the lexer, the  *)
(* recursive-descent parser and the tree-walking interpreter, composed as  *)
(* meow.run() composes them.                                               *)
(*                                                                         *)
(* Text is a sequence of one-character strings.  Python's 0-based indices  *)
(* (Lexer.start, Lexer.current, Parser.current) are kept 0-based; the      *)
(* element at Python index i is the TLA+ element i + 1.                    *)
(***************************************************************************)
EXTENDS Integers, Sequences, FiniteSets, TLC

VARIABLES
    lexer,        \* the Lexer object: source, tokens, start, current, line
    parser,       \* the Parser object: tokens, current, had_error
    statements,   \* the list parse() builds and run() hands to interpret()
    interpreter,  \* the Interpreter object: globals, environment
    envs,         \* heap of Environment objects: values, enclosing
    funcs,        \* heap of MeowFunction objects: declaration, closure
    stack,        \* the Python call stack of the evaluator, innermost frame last
    ctl,          \* what the evaluator is doing: exec / eval / value / done / raise
    stdout,       \* the lines written to standard output
    raised,       \* the exception that reached run()'s handler, or NoException
    pc            \* position inside run()

vars == <<lexer, parser, statements, interpreter, envs, funcs, stack, ctl,
          stdout, raised, pc>>

-----------------------------------------------------------------------------
(* Characters *)

NUL == "NUL"      \* the '\0' that Lexer.peek returns at the end of the source
NL == "\n"

Digits == {"0", "1", "2", "3", "4", "5", "6", "7", "8", "9"}

LowerCase == {"a", "b", "c", "d", "e", "f", "g", "h", "i", "j", "k", "l", "m",
              "n", "o", "p", "q", "r", "s", "t", "u", "v", "w", "x", "y", "z"}

UpperCase == {"A", "B", "C", "D", "E", "F", "G", "H", "I", "J", "K", "L", "M",
              "N", "O", "P", "Q", "R", "S", "T", "U", "V", "W", "X", "Y", "Z"}

isdigit(c) == c \in Digits

isalpha(c) == c \in LowerCase \cup UpperCase

isalnum(c) == isalpha(c) \/ isdigit(c)

\* The characters of the model's sources in code-point order (Python compares
\* strings by code point).
CodePoints ==
    <<"\n", " ", "!", "\"", "#", "%", "(", ")", ",", ".",
      "0", "1", "2", "3", "4", "5", "6", "7", "8", "9", "<", "=", ">", "@",
      "A", "B", "C", "D", "E", "F", "G", "H", "I", "J", "K", "L", "M",
      "N", "O", "P", "Q", "R", "S", "T", "U", "V", "W", "X", "Y", "Z",
      "^", "_",
      "a", "b", "c", "d", "e", "f", "g", "h", "i", "j", "k", "l", "m",
      "n", "o", "p", "q", "r", "s", "t", "u", "v", "w", "x", "y", "z",
      "{", "}", "~">>

ord(c) == CHOOSE i \in 1..Len(CodePoints) : CodePoints[i] = c

DigitChars == <<"0", "1", "2", "3", "4", "5", "6", "7", "8", "9">>

DigitValue(c) == (CHOOSE i \in 1..10 : DigitChars[i] = c) - 1

\* Python's s[a:b] for 0 <= a <= b <= len(s)
Slice(s, a, b) == SubSeq(s, a + 1, b)

-----------------------------------------------------------------------------
(* Runtime values.  One record shape for all kinds, so that any two values *)
(* can be compared.  A number is the rational (-1)^neg * num / den in      *)
(* lowest terms; neg distinguishes -0.0 from 0.0 as IEEE floats do.  The   *)
(* model's sources keep every number a small dyadic rational, which a      *)
(* 64-bit float holds exactly.                                             *)

NilV == [kind |-> "nil", b |-> FALSE, neg |-> FALSE, num |-> 0, den |-> 1, s |-> <<>>, f |-> 0]

BoolV(x) == [kind |-> "bool", b |-> x, neg |-> FALSE, num |-> 0, den |-> 1, s |-> <<>>, f |-> 0]

StrV(x) == [kind |-> "str", b |-> FALSE, neg |-> FALSE, num |-> 0, den |-> 1, s |-> x, f |-> 0]

FnV(i) == [kind |-> "fn", b |-> FALSE, neg |-> FALSE, num |-> 0, den |-> 1, s |-> <<>>, f |-> i]

RECURSIVE gcd(_, _)
gcd(a, b) == IF b = 0 THEN a ELSE gcd(b, a % b)

\* the float with sign bit neg and magnitude n / d
NumV(neg, n, d) ==
    LET g == gcd(n, d)
    IN [kind |-> "num", b |-> FALSE, neg |-> neg, num |-> n \div g, den |-> d \div g,
        s |-> <<>>, f |-> 0]


\* float(x) for a number or a boolean (bool is a subclass of int in Python)
float(v) == IF v.kind = "bool" THEN NumV(FALSE, IF v.b THEN 1 ELSE 0, 1) ELSE v

Signed(v) == IF v.neg THEN 0 - v.num ELSE v.num

Abs(i) == IF i < 0 THEN 0 - i ELSE i

FloatNeg(a) == [a EXCEPT !.neg = ~a.neg]

\* IEEE addition: an exact zero sum is -0.0 only when both operands are negative
FloatAdd(a, b) ==
    LET r == Signed(a) * b.den + Signed(b) * a.den
    IN NumV(IF r = 0 THEN a.neg /\ b.neg ELSE r < 0, Abs(r), a.den * b.den)

FloatSub(a, b) == FloatAdd(a, FloatNeg(b))

FloatMul(a, b) == NumV(a.neg # b.neg, a.num * b.num, a.den * b.den)

\* b is not zero
FloatDiv(a, b) == NumV(a.neg # b.neg, a.num * b.den, a.den * b.num)

FloatEq(a, b) == a.num = b.num /\ a.den = b.den /\ (a.neg = b.neg \/ a.num = 0)

FloatLt(a, b) == Signed(a) * b.den < Signed(b) * a.den

IsZero(a) == a.num = 0

RECURSIVE IntDigits(_)
IntDigits(n) ==
    IF n < 10 THEN <<DigitChars[n + 1]>>
    ELSE Append(IntDigits(n \div 10), DigitChars[(n % 10) + 1])

\* the fractional digits of a number are computed up to this many places
MaxFracDigits == 6

RECURSIVE FracDigits(_, _, _)
FracDigits(r, d, k) ==
    IF r = 0 \/ k = 0 THEN <<>>
    ELSE <<DigitChars[((r * 10) \div d) + 1]>> \o FracDigits((r * 10) % d, d, k - 1)

\* str(x) for a float x: always with a fractional part, "3.0", "-0.0", "0.75"
FloatStr(v) ==
    LET frac == FracDigits(v.num % v.den, v.den, MaxFracDigits)
    IN (IF v.neg THEN <<"-">> ELSE <<>>) \o IntDigits(v.num \div v.den) \o <<".">>
       \o (IF frac = <<>> THEN <<"0">> ELSE frac)

\* str(obj) of a MeowFunction is the host's default object text; its address
\* part is stood for by the object's index in the heap.
FunctionStr(i) ==
    <<"<", "M", "e", "o", "w", "F", "u", "n", "c", "t", "i", "o", "n", " ">>
    \o IntDigits(i) \o <<">">>

\* Python's str(x)
str(v) ==
    CASE v.kind = "nil" -> <<"N", "o", "n", "e">>
      [] v.kind = "bool" -> IF v.b THEN <<"T", "r", "u", "e">> ELSE <<"F", "a", "l", "s", "e">>
      [] v.kind = "num" -> FloatStr(v)
      [] v.kind = "str" -> v.s
      [] v.kind = "fn" -> FunctionStr(v.f)

lower(c) ==
    IF c \in UpperCase
    THEN CodePoints[ord(c) + (ord("a") - ord("A"))]
    ELSE c

endswith(text, suffix) ==
    /\ Len(text) >= Len(suffix)
    /\ SubSeq(text, Len(text) - Len(suffix) + 1, Len(text)) = suffix

\* float(text) for the text of a NUMBER token: digits, optionally "." digits
RECURSIVE DigitsValue(_)
DigitsValue(text) ==
    IF text = <<>> THEN 0
    ELSE DigitsValue(SubSeq(text, 1, Len(text) - 1)) * 10 + DigitValue(text[Len(text)])

RECURSIVE Pow10(_)
Pow10(k) == IF k = 0 THEN 1 ELSE 10 * Pow10(k - 1)

ParseFloat(text) ==
    LET dots == {i \in 1..Len(text) : text[i] = "."}
    IN IF dots = {} THEN NumV(FALSE, DigitsValue(text), 1)
       ELSE LET i == CHOOSE j \in dots : TRUE
                whole == SubSeq(text, 1, i - 1)
                frac == SubSeq(text, i + 1, Len(text))
            IN NumV(FALSE, DigitsValue(whole) * Pow10(Len(frac)) + DigitsValue(frac),
                    Pow10(Len(frac)))

-----------------------------------------------------------------------------
(* Lexer (src/meow/lexer.py) *)

None == NilV

Token(type, lexeme, literal, line) ==
    [type |-> type, lexeme |-> lexeme, literal |-> literal, line |-> line]

keywords ==
    {<<<<"m", "e", "o", "w">>, "MEOW">>,
     <<<<"p", "u", "r", "r">>, "PURR">>,
     <<<<"h", "i", "s", "s">>, "HISS">>,
     <<<<"g", "r", "r">>, "GRR">>,
     <<<<"g", "r", "r", "r">>, "GRRR">>,
     <<<<"m", "r", "r", "r">>, "MRRR">>,
     <<<<"p", "r", "r", "r">>, "PRRR">>,
     <<<<"m", "e", "w">>, "MEW">>,
     <<<<"a", "n", "d">>, "AND">>,
     <<<<"o", "r">>, "OR">>,
     <<<<"t", "r", "u", "e">>, "TRUE">>,
     <<<<"f", "a", "l", "s", "e">>, "FALSE">>,
     <<<<"n", "i", "l">>, "NIL">>,
     <<<<"T", "A", "I", "L", "_", "U", "P">>, "TAIL_UP">>,
     <<<<"T", "A", "I", "L", "_", "U", "P", "_", "U", "P">>, "TAIL_UP_UP">>,
     <<<<"T", "A", "I", "L", "_", "D", "O", "W", "N">>, "TAIL_DOWN">>,
     <<<<"T", "A", "I", "L", "_", "D", "O", "W", "N", "_", "D", "O", "W", "N">>, "TAIL_DOWN_DOWN">>,
     <<<<"P", "S", "P", "S", "P", "S">>, "PSPSPS">>,
     <<<<"H", "I", "S", "S", "S">>, "HISSS">>}

KeywordTexts == {k[1] : k \in keywords}

\* self.keywords.get(text, TokenType.IDENTIFIER)
keywords_get(text) ==
    IF text \in KeywordTexts
    THEN (CHOOSE k \in keywords : k[1] = text)[2]
    ELSE "IDENTIFIER"

Lexer(src) == [source |-> src, tokens |-> <<>>, start |-> 0, current |-> 0, line |-> 1]

lexer_is_at_end(lx) == lx.current >= Len(lx.source)

lexer_peek(lx) == IF lexer_is_at_end(lx) THEN NUL ELSE lx.source[lx.current + 1]

peek_next(lx) ==
    IF lx.current + 1 >= Len(lx.source) THEN NUL ELSE lx.source[lx.current + 2]

lexer_advance(lx) == [lx EXCEPT !.current = lx.current + 1]

add_token(lx, type, literal) ==
    LET text == Slice(lx.source, lx.start, lx.current)
    IN [lx EXCEPT !.tokens = Append(lx.tokens, Token(type, text, literal, lx.line))]

\* while self.peek().isalnum(): self.advance()
RECURSIVE SkipAlnum(_)
SkipAlnum(lx) == IF isalnum(lexer_peek(lx)) THEN SkipAlnum(lexer_advance(lx)) ELSE lx

\* while self.peek().isdigit(): self.advance()
RECURSIVE SkipDigits(_)
SkipDigits(lx) == IF isdigit(lexer_peek(lx)) THEN SkipDigits(lexer_advance(lx)) ELSE lx

\* the comment loop: while self.peek() != '\n' and not self.is_at_end(): self.advance()
RECURSIVE SkipComment(_)
SkipComment(lx) ==
    IF lexer_peek(lx) # NL /\ ~lexer_is_at_end(lx) THEN SkipComment(lexer_advance(lx)) ELSE lx

\* the loop of string(): count the embedded newlines, stop at '"' or at the end
RECURSIVE SkipString(_)
SkipString(lx) ==
    IF lexer_peek(lx) # "\"" /\ ~lexer_is_at_end(lx)
    THEN SkipString(lexer_advance(
             IF lexer_peek(lx) = NL THEN [lx EXCEPT !.line = lx.line + 1] ELSE lx))
    ELSE lx

Scanned(lx) == [lexer |-> lx, error |-> FALSE]

LexerErrorAt(lx) == [lexer |-> lx, error |-> TRUE]

identifier(lx) ==
    LET l1 == SkipAlnum(lx)
        text == Slice(l1.source, l1.start, l1.current)
    IN Scanned(add_token(l1, keywords_get(text), None))

string(lx) ==
    LET l1 == SkipString(lx)
    IN IF lexer_is_at_end(l1) THEN LexerErrorAt(l1)
       ELSE LET l2 == lexer_advance(l1)
                value == Slice(l2.source, l2.start + 1, l2.current - 1)
            IN Scanned(add_token(l2, "STRING", StrV(value)))

number(lx) ==
    LET l1 == SkipDigits(lx)
        l2 == IF lexer_peek(l1) = "." /\ isdigit(peek_next(l1))
              THEN SkipDigits(lexer_advance(l1))
              ELSE l1
        value == ParseFloat(Slice(l2.source, l2.start, l2.current))
    IN Scanned(add_token(l2, "NUMBER", value))

SingleCharTokens ==
    {<<"(", "LEFT_PAREN">>, <<")", "RIGHT_PAREN">>, <<"{", "LEFT_BRACE">>,
     <<"}", "RIGHT_BRACE">>, <<",", "COMMA">>, <<"@", "PAW_PAW">>, <<"%", "SCRATCH">>,
     <<"~", "PURR_PURR">>, <<"^", "FEED">>, <<"=", "EQUALS">>, <<"!", "NOT">>}

\* scan_token with a newline arm that emits NEWLINE whatever the last token is
ScanTokenEveryNewline(lx0) ==
    LET c == lexer_peek(lx0)
        lx == lexer_advance(lx0)
    IN CASE c \in {" ", "\r", "\t"} -> Scanned(lx)
         [] c = NL -> Scanned(add_token([lx EXCEPT !.line = lx.line + 1], "NEWLINE", None))
         [] c = "#" -> Scanned(SkipComment(lx))
         [] c \in {p[1] : p \in SingleCharTokens} ->
              Scanned(add_token(lx, (CHOOSE p \in SingleCharTokens : p[1] = c)[2], None))
         [] c = "\"" -> string(lx)
         [] isdigit(c) -> number(lx)
         [] isalpha(c) \/ c = "_" -> identifier(lx)
         [] OTHER -> LexerErrorAt(lx)

\* One call of scan_token, after self.start = self.current
ScanToken(lx0) ==
    LET c == lexer_peek(lx0)
        lx == lexer_advance(lx0)
    IN CASE c \in {" ", "\r", "\t"} -> Scanned(lx)
         [] c = NL ->
              LET l1 == [lx EXCEPT !.line = lx.line + 1]
              IN IF l1.tokens # <<>> /\ l1.tokens[Len(l1.tokens)].type # "NEWLINE"
                 THEN Scanned(add_token(l1, "NEWLINE", None))
                 ELSE Scanned(l1)
         [] c = "#" -> Scanned(SkipComment(lx))
         [] c \in {p[1] : p \in SingleCharTokens} ->
              Scanned(add_token(lx, (CHOOSE p \in SingleCharTokens : p[1] = c)[2], None))
         [] c = "\"" -> string(lx)
         [] isdigit(c) -> number(lx)
         [] isalpha(c) \/ c = "_" -> identifier(lx)
         [] OTHER -> LexerErrorAt(lx)

\* LexerError._random_meow: the message is drawn from this pool
lexer_cat_sounds ==
    {"MEOW MEOW HISSS!", "MRRROW HISS MEOW!", "HISSS MEOW MEOW!",
     "PURRRR HISS MEOW!", "MEOW HISS HISS!", "MRRROW PURR HISS!"}

-----------------------------------------------------------------------------
(* AST (src/meow/ast.py).  NoneNode stands for Python's None where a node  *)
(* is optional; the Print class is PrintNode here.                         *)

NoneNode == [class |-> "None"]

Binary(left, operator, right) ==
    [class |-> "Binary", left |-> left, operator |-> operator, right |-> right]

Grouping(expression) == [class |-> "Grouping", expression |-> expression]

Literal(value) == [class |-> "Literal", value |-> value]

Unary(operator, right) == [class |-> "Unary", operator |-> operator, right |-> right]

Variable(name) == [class |-> "Variable", name |-> name]

Assign(name, value) == [class |-> "Assign", name |-> name, value |-> value]

Logical(left, operator, right) ==
    [class |-> "Logical", left |-> left, operator |-> operator, right |-> right]

Call(callee, paren, arguments) ==
    [class |-> "Call", callee |-> callee, paren |-> paren, arguments |-> arguments]

Block(stmts) == [class |-> "Block", statements |-> stmts]

Expression(expression) == [class |-> "Expression", expression |-> expression]

Function(name, params, body) ==
    [class |-> "Function", name |-> name, params |-> params, body |-> body]

If(condition, then_branch, else_branch) ==
    [class |-> "If", condition |-> condition, then_branch |-> then_branch,
     else_branch |-> else_branch]

PrintNode(expression) == [class |-> "Print", expression |-> expression]

Return(keyword, value) == [class |-> "Return", keyword |-> keyword, value |-> value]

Var(name, initializer) == [class |-> "Var", name |-> name, initializer |-> initializer]

While(condition, body) == [class |-> "While", condition |-> condition, body |-> body]

-----------------------------------------------------------------------------
(* Parser (src/meow/parser.py).  A parsing method takes the Parser object  *)
(* p and yields the object after the call, the node it returned, and       *)
(* whether it raised ParseError instead of returning.                      *)

\* the most parameters / arguments accepted without a diagnostic
MaxArity == 255

Parser(tokens) == [tokens |-> tokens, current |-> 0, had_error |-> FALSE]

Returned(p, node) == [p |-> p, node |-> node, raised |-> FALSE]

Raised(p) == [p |-> p, node |-> NoneNode, raised |-> TRUE]

peek(p) == p.tokens[p.current + 1]

\* self.tokens[self.current - 1]: index -1 is the last token
previous(p) == IF p.current = 0 THEN p.tokens[Len(p.tokens)] ELSE p.tokens[p.current]

is_at_end(p) == peek(p).type = "EOF"

advance(p) == IF ~is_at_end(p) THEN [p EXCEPT !.current = p.current + 1] ELSE p

check(p, type) == IF is_at_end(p) THEN FALSE ELSE peek(p).type = type

\* whether match(*types) returns True; the parser after it is then advance(p)
match(p, types) == \E type \in types : check(p, type)

\* error(): sets had_error and builds the exception
error(p) == [p EXCEPT !.had_error = TRUE]

consume(p, type) ==
    IF check(p, type) THEN Returned(advance(p), peek(p)) ELSE Raised(error(p))

SyncKeywords == {"MEOW", "PURR", "GRR", "GRRR", "MRRR", "PRRR", "MEW"}

RECURSIVE SynchronizeLoop(_)
SynchronizeLoop(p) ==
    IF is_at_end(p) THEN p
    ELSE IF previous(p).type = "NEWLINE" THEN p
    ELSE IF peek(p).type \in SyncKeywords THEN p
    ELSE SynchronizeLoop(advance(p))

synchronize(p) == SynchronizeLoop(advance(p))

\* self(method, p, x) is the call self.method(...) on the parser p; x is the
\* method's argument, <<>> when it has none.  The methods call one another
\* through it.
RECURSIVE self(_, _, _)

(* A method that parses several parts in a row is written as a chain: the  *)
(* result carries in node the parts parsed so far, in order, and a raised  *)
(* result passes through the rest of the chain unchanged.                  *)

Parts(p) == Returned(p, <<>>)

\* r, then the outcome s of the next step: its node is one more part
Join(r, s) == IF s.raised THEN s ELSE Returned(s.p, Append(r.node, s.node))

\* r, then self.consume(type, ...): the token is one more part
Consume(r, type) == IF r.raised THEN r ELSE Join(r, consume(r.p, type))

\* r, then self.method(): the node is one more part
Sub(r, method) == IF r.raised THEN r ELSE Join(r, self(method, r.p, <<>>))

\* r, then "if not self.is_at_end(): self.consume(NEWLINE, ...)"
Newline(r) ==
    IF r.raised THEN r
    ELSE IF ~is_at_end(r.p) THEN Consume(r, "NEWLINE") ELSE r

\* the node a method returns, built from the parts it parsed
Make(class, r) ==
    IF r.raised THEN r
    ELSE Returned(r.p,
             CASE class = "Grouping" -> Grouping(r.node[1])
               [] class = "Expression" -> Expression(r.node[1])
               [] class = "Print" -> PrintNode(r.node[1])
               [] class = "Var" -> Var(r.node[1], r.node[2])
               [] class = "Block" -> Block(r.node[1])
               [] class = "While" -> While(r.node[1], Block(r.node[3]))
               [] class = "If" -> If(r.node[1], Block(r.node[3]),
                                     IF Len(r.node) > 3 THEN Block(r.node[5]) ELSE NoneNode)
               [] class = "Function" -> Function(r.node[1], r.node[3], r.node[6]))

primary(p) ==
    CASE match(p, {"FALSE"}) -> Returned(advance(p), Literal(BoolV(FALSE)))
      [] match(p, {"TRUE"}) -> Returned(advance(p), Literal(BoolV(TRUE)))
      [] match(p, {"NIL"}) -> Returned(advance(p), Literal(None))
      [] match(p, {"NUMBER", "STRING"}) -> Returned(advance(p), Literal(peek(p).literal))
      [] match(p, {"IDENTIFIER"}) -> Returned(advance(p), Variable(peek(p)))
      [] match(p, {"LEFT_PAREN"}) ->
           Make("Grouping", Consume(Sub(Parts(advance(p)), "expression"), "RIGHT_PAREN"))
      [] OTHER -> Raised(error(p))

\* the argument loop of finish_call, with the arguments parsed so far
RECURSIVE ArgumentLoop(_, _), ArgumentNext(_, _)
ArgumentLoop(p, arguments) ==
    ArgumentNext(self("expression", IF Len(arguments) >= MaxArity THEN error(p) ELSE p, <<>>),
                 arguments)

\* e is the argument just parsed: "if not self.match(COMMA): break"
ArgumentNext(e, arguments) ==
    IF e.raised THEN e
    ELSE IF match(e.p, {"COMMA"})
         THEN ArgumentLoop(advance(e.p), Append(arguments, e.node))
         ELSE Returned(e.p, Append(arguments, e.node))

\* the arguments of finish_call
Arguments(p) ==
    IF ~check(p, "RIGHT_PAREN") THEN ArgumentLoop(p, <<>>) ELSE Returned(p, <<>>)

\* Call(callee, paren, arguments) from the parts <<arguments, paren>>
CallNode(callee, r) ==
    IF r.raised THEN r ELSE Returned(r.p, Call(callee, r.node[2], r.node[1]))

finish_call(p, callee) ==
    CallNode(callee, Consume(Join(Parts(p), Arguments(p)), "RIGHT_PAREN"))

\* the loop of call(), with the expression parsed so far
RECURSIVE CallLoop(_)
CallLoop(r) ==
    IF r.raised THEN r
    ELSE IF match(r.p, {"LEFT_PAREN"})
         THEN CallLoop(self("finish_call", advance(r.p), r.node))
         ELSE r

call(p) == CallLoop(primary(p))

UnaryNode(operator, right) ==
    IF right.raised THEN right ELSE Returned(right.p, Unary(operator, right.node))

unary(p) ==
    IF match(p, {"NOT", "SCRATCH"})
    THEN UnaryNode(peek(p), self("unary", advance(p), <<>>))
    ELSE call(p)

\* The methods or_, and_, equality, comparison, term and factor share one
\* shape: an operand of the next level, then (operator operand)*.
LevelOperators(level) ==
    CASE level = "or_" -> {"OR"}
      [] level = "and_" -> {"AND"}
      [] level = "equality" -> {"PSPSPS", "HISSS"}
      [] level = "comparison" -> {"TAIL_UP", "TAIL_UP_UP", "TAIL_DOWN", "TAIL_DOWN_DOWN"}
      [] level = "term" -> {"PAW_PAW", "SCRATCH"}
      [] level = "factor" -> {"PURR_PURR", "FEED"}

\* the method that parses the operands of a level
OperandMethod(level) ==
    CASE level = "or_" -> "and_"
      [] level = "and_" -> "equality"
      [] level = "equality" -> "comparison"
      [] level = "comparison" -> "term"
      [] level = "term" -> "factor"
      [] level = "factor" -> "unary"

\* the while loop of a level, with the expression parsed so far
RECURSIVE LeftAssocLoop(_, _), LeftAssocNext(_, _, _)
LeftAssocLoop(level, r) ==
    IF r.raised THEN r
    ELSE IF match(r.p, LevelOperators(level))
         THEN LeftAssocNext(level, r, self(OperandMethod(level), advance(r.p), <<>>))
         ELSE r

\* r is the expression so far, at its operator; right is the operand after it
LeftAssocNext(level, r, right) ==
    IF right.raised THEN right
    ELSE LeftAssocLoop(level, Returned(right.p,
             IF level \in {"or_", "and_"}
             THEN Logical(r.node, peek(r.p), right.node)
             ELSE Binary(r.node, peek(r.p), right.node)))

factor(p) == LeftAssocLoop("factor", unary(p))

term(p) == LeftAssocLoop("term", factor(p))

comparison(p) == LeftAssocLoop("comparison", term(p))

equality(p) == LeftAssocLoop("equality", comparison(p))

and_(p) == LeftAssocLoop("and_", equality(p))

or_(p) == LeftAssocLoop("or_", and_(p))

\* expr is the target, at "="; value is the assignment parsed after it
AssignNode(expr, value) ==
    IF value.raised THEN value
    ELSE IF expr.node.class = "Variable"
         THEN Returned(value.p, Assign(expr.node.name, value.node))
         ELSE Returned(error(value.p), expr.node)

\* expr is the or_ expression parsed first
AssignmentTail(expr) ==
    IF expr.raised THEN expr
    ELSE IF match(expr.p, {"EQUALS"})
         THEN AssignNode(expr, self("assignment", advance(expr.p), <<>>))
         ELSE expr

assignment(p) == AssignmentTail(or_(p))

expression(p) == assignment(p)

expression_statement(p) == Make("Expression", Newline(Sub(Parts(p), "expression")))

ReturnNode(keyword, r) ==
    IF r.raised THEN r ELSE Returned(r.p, Return(keyword, r.node[1]))

\* p is the parser after match(MEW)
return_statement(p) ==
    ReturnNode(previous(p),
               Newline(IF ~check(p, "NEWLINE") THEN Sub(Parts(p), "expression")
                       ELSE Returned(p, <<NoneNode>>)))

print_statement(p) == Make("Print", Newline(Sub(Parts(p), "expression")))

\* the loop of block(), with the statements parsed so far
RECURSIVE BlockLoop(_, _), BlockNext(_, _)
BlockLoop(p, stmts) ==
    IF ~check(p, "RIGHT_BRACE") /\ ~is_at_end(p)
    THEN IF match(p, {"NEWLINE"}) THEN BlockLoop(advance(p), stmts)
         ELSE BlockNext(self("declaration", p, <<>>), stmts)
    ELSE Returned(p, stmts)

\* stmt is the declaration just parsed: "if stmt: statements.append(stmt)"
BlockNext(stmt, stmts) ==
    BlockLoop(stmt.p, IF stmt.node.class # "None" THEN Append(stmts, stmt.node) ELSE stmts)

\* body is the outcome of the loop: the closing brace, and the statements returned
BlockEnd(body) ==
    IF check(body.p, "RIGHT_BRACE") THEN Returned(advance(body.p), body.node)
    ELSE Raised(error(body.p))

block(p) == BlockEnd(BlockLoop(p, <<>>))

\* parts: condition, "{", statements
while_statement(p) ==
    Make("While", Sub(Consume(Sub(Parts(p), "expression"), "LEFT_BRACE"), "block"))

\* the optional else branch of if_statement
ElseBranch(r) ==
    IF r.raised THEN r
    ELSE IF match(r.p, {"GRRR"})
         THEN Sub(Consume(Returned(advance(r.p), r.node), "LEFT_BRACE"), "block")
         ELSE r

\* parts: condition, "{", statements, and with an else branch "{", statements
if_statement(p) ==
    Make("If", ElseBranch(Sub(Consume(Sub(Parts(p), "expression"), "LEFT_BRACE"), "block")))

statement(p) ==
    CASE match(p, {"GRR"}) -> self("if_statement", advance(p), <<>>)
      [] match(p, {"MRRR"}) -> self("while_statement", advance(p), <<>>)
      [] match(p, {"PURR"}) -> self("print_statement", advance(p), <<>>)
      [] match(p, {"MEW"}) -> self("return_statement", advance(p), <<>>)
      [] match(p, {"LEFT_BRACE"}) -> Make("Block", Sub(Parts(advance(p)), "block"))
      [] OTHER -> self("expression_statement", p, <<>>)

\* the optional initializer of var_declaration
Initializer(r) ==
    IF r.raised THEN r
    ELSE IF match(r.p, {"EQUALS"})
         THEN Sub(Returned(advance(r.p), r.node), "expression")
         ELSE Returned(r.p, Append(r.node, NoneNode))

\* p is the parser after match(MEOW); parts: name, initializer
var_declaration(p) == Make("Var", Newline(Initializer(Consume(Parts(p), "IDENTIFIER"))))

\* the parameter loop of function(), with the parameters parsed so far
RECURSIVE ParameterLoop(_, _), ParameterNext(_, _)
ParameterLoop(p, parameters) ==
    ParameterNext(consume(IF Len(parameters) >= MaxArity THEN error(p) ELSE p, "IDENTIFIER"),
                  parameters)

\* param is the parameter just parsed: "if not self.match(COMMA): break"
ParameterNext(param, parameters) ==
    IF param.raised THEN param
    ELSE IF match(param.p, {"COMMA"})
         THEN ParameterLoop(advance(param.p), Append(parameters, param.node))
         ELSE Returned(param.p, Append(parameters, param.node))

\* the parameters of function()
Parameters(r) ==
    IF r.raised THEN r
    ELSE IF ~check(r.p, "RIGHT_PAREN") THEN Join(r, ParameterLoop(r.p, <<>>))
         ELSE Returned(r.p, Append(r.node, <<>>))

\* p is the parser after match(PRRR); parts: name, "(", parameters, ")", "{", body
function(p) ==
    Make("Function",
         Sub(Consume(Consume(Parameters(Consume(Consume(Parts(p), "IDENTIFIER"),
                                                "LEFT_PAREN")),
                             "RIGHT_PAREN"),
                     "LEFT_BRACE"),
             "block"))

\* a declaration() without the except clause
RecoverNothing(r) == r

\* "except ParseError: self.synchronize(); return None"
Recover(r) == IF r.raised THEN Returned(synchronize(r.p), NoneNode) ELSE r

\* never raises
declaration(p) ==
    Recover(CASE match(p, {"PRRR"}) -> self("function", advance(p), <<>>)
              [] match(p, {"MEOW"}) -> self("var_declaration", advance(p), <<>>)
              [] OTHER -> self("statement", p, <<>>))

self(method, p, x) ==
    CASE method = "declaration" -> declaration(p)
      [] method = "function" -> function(p)
      [] method = "var_declaration" -> var_declaration(p)
      [] method = "statement" -> statement(p)
      [] method = "if_statement" -> if_statement(p)
      [] method = "while_statement" -> while_statement(p)
      [] method = "block" -> block(p)
      [] method = "print_statement" -> print_statement(p)
      [] method = "return_statement" -> return_statement(p)
      [] method = "expression_statement" -> expression_statement(p)
      [] method = "expression" -> expression(p)
      [] method = "assignment" -> assignment(p)
      [] method = "or_" -> or_(p)
      [] method = "and_" -> and_(p)
      [] method = "equality" -> equality(p)
      [] method = "comparison" -> comparison(p)
      [] method = "term" -> term(p)
      [] method = "factor" -> factor(p)
      [] method = "unary" -> unary(p)
      [] method = "call" -> call(p)
      [] method = "finish_call" -> finish_call(p, x)
      [] method = "primary" -> primary(p)

\* while self.match(TokenType.NEWLINE): continue
RECURSIVE SkipNewlines(_)
SkipNewlines(p) == IF match(p, {"NEWLINE"}) THEN SkipNewlines(advance(p)) ELSE p

-----------------------------------------------------------------------------
(* Interpreter (src/meow/interpreter.py): exceptions, values, operators    *)

\* A message is a sequence of text chunks; the text is their concatenation.
Exception(class, token, message, value) ==
    [class |-> class, token |-> token, message |-> message, value |-> value,
     context |-> "None"]

NoToken == Token("EOF", <<>>, None, 0)

NoException == Exception("None", NoToken, <<>>, None)

ReturnException(value) == Exception("ReturnException", NoToken, <<>>, value)

RuntimeError(token, message) == Exception("RuntimeError", token, message, None)

\* the exception Python raises for expr.operator on a node without that field
AttributeError(class, attribute) ==
    Exception("AttributeError", NoToken,
              <<"'", class, "' object has no attribute '", attribute, "'">>, None)

LexerError(line, message) == Exception("LexerError", NoToken, <<message>>, None)

\* str(e) is "Line {token.line}: {message}"; context is the class of the
\* exception being handled when this one was raised
InterpreterError(token, message, context) ==
    [class |-> "InterpreterError", token |-> token,
     message |-> <<"Line ">> \o IntDigits(token.line) \o <<": ">> \o message,
     value |-> None, context |-> context]

\* isinstance(x, (int, float)): bool is a subclass of int
IsIntOrFloat(v) == v.kind \in {"bool", "num"}

is_truthy(object) ==
    CASE object.kind = "nil" -> FALSE
      [] object.kind = "bool" -> object.b
      [] object.kind = "num" -> ~IsZero(object)
      [] OTHER -> TRUE

\* Python's a == b on runtime values: booleans take part in numeric
\* comparison, functions compare by identity
PyEq(a, b) ==
    CASE IsIntOrFloat(a) /\ IsIntOrFloat(b) -> FloatEq(float(a), float(b))
      [] a.kind = "str" /\ b.kind = "str" -> a.s = b.s
      [] a.kind = "fn" /\ b.kind = "fn" -> a.f = b.f
      [] a.kind = "nil" /\ b.kind = "nil" -> TRUE
      [] OTHER -> FALSE

is_equal(a, b) ==
    IF a.kind = "nil" /\ b.kind = "nil" THEN TRUE
    ELSE IF a.kind = "nil" THEN FALSE
    ELSE PyEq(a, b)

\* Python's a < b on strings: by code point, a proper prefix is smaller
RECURSIVE StrLt(_, _)
StrLt(a, b) ==
    IF b = <<>> THEN FALSE
    ELSE IF a = <<>> THEN TRUE
    ELSE IF a[1] # b[1] THEN ord(a[1]) < ord(b[1])
    ELSE StrLt(Tail(a), Tail(b))

RECURSIVE MapLower(_)
MapLower(text) == IF text = <<>> THEN <<>> ELSE <<lower(text[1])>> \o MapLower(Tail(text))

stringify(value) ==
    IF value.kind = "nil" THEN <<"n", "i", "l">>
    ELSE IF value.kind = "bool" THEN MapLower(str(value))
    ELSE IF IsIntOrFloat(value)
         THEN LET text == str(value)
              IN IF endswith(text, <<".", "0">>) THEN SubSeq(text, 1, Len(text) - 2) ELSE text
    ELSE str(value)

\* What an operator application does: return a value or raise RuntimeError
\* with a message (the token is the node's operator).
Yield(value) == [raises |-> FALSE, value |-> value, message |-> <<>>]

Fail(message) == [raises |-> TRUE, value |-> None, message |-> message]

check_number_operand(operand, result) ==
    IF IsIntOrFloat(operand) THEN Yield(result)
    ELSE Fail(<<"Operand must be a number.">>)

check_number_operands(left, right, result) ==
    IF IsIntOrFloat(left) /\ IsIntOrFloat(right) THEN Yield(result)
    ELSE Fail(<<"Operands must be numbers.">>)

\* the comparison arms: two strings compare as strings, otherwise as numbers
Compare(type, left, right) ==
    LET lt(a, b) == IF a.kind = "str" THEN StrLt(a.s, b.s) ELSE FloatLt(float(a), float(b))
        eq(a, b) == IF a.kind = "str" THEN a.s = b.s ELSE FloatEq(float(a), float(b))
        result == CASE type = "TAIL_UP" -> lt(right, left)
                    [] type = "TAIL_UP_UP" -> lt(right, left) \/ eq(left, right)
                    [] type = "TAIL_DOWN" -> lt(left, right)
                    [] type = "TAIL_DOWN_DOWN" -> lt(left, right) \/ eq(left, right)
    IN IF left.kind = "str" /\ right.kind = "str" THEN Yield(BoolV(result))
       ELSE check_number_operands(left, right, BoolV(result))

\* visit_binary_expr once both operands are evaluated
BinaryApply(type, left, right) ==
    CASE type = "PAW_PAW" ->
           IF IsIntOrFloat(left) /\ IsIntOrFloat(right)
           THEN Yield(FloatAdd(float(left), float(right)))
           ELSE IF left.kind = "str" \/ right.kind = "str"
                THEN Yield(StrV(str(left) \o str(right)))
                ELSE Fail(<<"Operands must be two numbers or at least one string.">>)
      [] type = "SCRATCH" ->
           check_number_operands(left, right, FloatSub(float(left), float(right)))
      [] type = "PURR_PURR" ->
           check_number_operands(left, right, FloatMul(float(left), float(right)))
      [] type = "FEED" ->
           IF ~(IsIntOrFloat(left) /\ IsIntOrFloat(right))
           THEN Fail(<<"Operands must be numbers.">>)
           ELSE IF IsZero(float(right)) THEN Fail(<<"Division by zero.">>)
           ELSE Yield(FloatDiv(float(left), float(right)))
      [] type \in {"TAIL_UP", "TAIL_UP_UP", "TAIL_DOWN", "TAIL_DOWN_DOWN"} ->
           Compare(type, left, right)
      [] type = "PSPSPS" -> Yield(BoolV(is_equal(left, right)))
      [] type = "HISSS" -> Yield(BoolV(~is_equal(left, right)))
      [] OTHER -> Yield(None)

\* visit_unary_expr once the operand is evaluated
UnaryApply(type, right) ==
    CASE type = "NOT" -> Yield(BoolV(~is_truthy(right)))
      [] type = "SCRATCH" -> check_number_operand(right, FloatNeg(float(right)))
      [] OTHER -> Yield(None)

(* Environment objects live in the heap envs; an Environment is named by   *)
(* its index, and enclosing = 0 is None.                                   *)

Environment(enclosing) == [values |-> <<>>, enclosing |-> enclosing]

\* a define that writes into the enclosing environment when that one
\* already holds the name
define_in_holder(h, e, name, value) ==
    IF h[e].enclosing # 0 /\ name \in DOMAIN h[h[e].enclosing].values
    THEN [h EXCEPT ![h[e].enclosing].values[name] = value]
    ELSE [h EXCEPT ![e].values = (name :> value) @@ h[e].values]

\* Environment.define on the heap h
define(h, e, name, value) ==
    [h EXCEPT ![e].values = (name :> value) @@ h[e].values]

\* the environment on e's chain that holds name, 0 if none does
RECURSIVE Resolve(_, _, _)
Resolve(h, e, name) ==
    IF name \in DOMAIN h[e].values THEN e
    ELSE IF h[e].enclosing # 0 THEN Resolve(h, h[e].enclosing, name)
    ELSE 0

UndefinedVariable(name) ==
    RuntimeError(name, <<"Undefined variable '">> \o name.lexeme \o <<"'.">>)

-----------------------------------------------------------------------------
(* The evaluator as a machine.  ctl is the pending operation: execute a    *)
(* statement, evaluate an expression, return a value to the frame on top   *)
(* of the stack, or raise an exception through it.  A frame is a Python    *)
(* call that still has work to do after a nested call returns; a call in   *)
(* tail position (visit_grouping_expr, visit_expression_stmt, the branch   *)
(* of visit_if_stmt, the right operand of visit_logical_expr,              *)
(* visit_block_stmt) leaves no frame, as it has no handler and passes the  *)
(* result on.                                                              *)

Idle == [op |-> "idle", node |-> NoneNode, value |-> None, exception |-> NoException]

Execute(stmt) == [Idle EXCEPT !.op = "execute", !.node = stmt]

Evaluate(expr) == [Idle EXCEPT !.op = "evaluate", !.node = expr]

ReturnValue(value) == [Idle EXCEPT !.op = "return", !.value = value]

Raise(exception) == [Idle EXCEPT !.op = "raise", !.exception = exception]

Top == stack[Len(stack)]

Rest == SubSeq(stack, 1, Len(stack) - 1)

Replace(frame) == [stack EXCEPT ![Len(stack)] = frame]

Executing(class) == pc = "interpret" /\ ctl.op = "execute" /\ ctl.node.class = class

Evaluating(class) == pc = "interpret" /\ ctl.op = "evaluate" /\ ctl.node.class = class

\* a value is being returned to a frame of the method fn
Returning(fn) ==
    pc = "interpret" /\ ctl.op = "return" /\ stack # <<>> /\ Top.fn = fn

\* an exception is passing through a frame of the method fn
Raising(fn) ==
    pc = "interpret" /\ ctl.op = "raise" /\ stack # <<>> /\ Top.fn = fn

(* The programs run() is given.  Lines are separated by "\n".              *)

\* the numbers of the generated programs are 0 .. MaxNum
MaxNum == 1

\* spec section 8, scenarios 1 to 7
Src_add_numbers == <<"p", "u", "r", "r", " ", "1", " ", "@", " ", "2">>

Src_cat3 == <<"m", "e", "o", "w", " ", "x", " ", "=", " ", "\"", "c", "a", "t", "\"",
      "\n", "p", "u", "r", "r", " ", "x", " ", "@", " ", "3">>

Src_add_function == <<"p", "r", "r", "r", " ", "a", "d", "d", "(", "a", ",", " ", "b", ")",
      " ", "{", " ", "m", "e", "w", " ", "a", " ", "@", " ", "b", " ", "}",
      "\n", "p", "u", "r", "r", " ", "a", "d", "d", "(", "2", ",", " ",
      "3", ")">>

Src_add_function_lines == <<"p", "r", "r", "r", " ", "a", "d", "d", "(", "a", ",", " ", "b", ")",
      " ", "{", "\n", " ", "m", "e", "w", " ", "a", " ", "@", " ", "b",
      "\n", "}", "\n", "p", "u", "r", "r", " ", "a", "d", "d", "(", "2",
      ",", " ", "3", ")">>

Src_counter ==
    <<"p", "r", "r", "r", " ", "c", "o", "u", "n", "t", "e", "r", "(", ")",
      " ", "{", "\n", " ", "m", "e", "o", "w", " ", "n", " ", "=", " ",
      "0", "\n", " ", "p", "r", "r", "r", " ", "i", "n", "c", "(", ")",
      " ", "{", "\n", " ", " ", "n", " ", "=", " ", "n", " ", "@", " ",
      "1", "\n", " ", " ", "m", "e", "w", " ", "n", "\n", " ", "}", "\n",
      " ", "m", "e", "w", " ", "i", "n", "c", "\n", "}", "\n", "m", "e",
      "o", "w", " ", "c", " ", "=", " ", "c", "o", "u", "n", "t", "e", "r",
      "(", ")", "\n", "p", "u", "r", "r", " ", "c", "(", ")", "\n", "p",
      "u", "r", "r", " ", "c", "(", ")", "\n", "m", "e", "o", "w", " ",
      "d", " ", "=", " ", "c", "o", "u", "n", "t", "e", "r", "(", ")",
      "\n", "p", "u", "r", "r", " ", "d", "(", ")", "\n", "p", "u", "r",
      "r", " ", "c", "(", ")">>

Src_count_loop == <<"m", "e", "o", "w", " ", "i", " ", "=", " ", "0", "\n", "m", "r", "r",
      "r", " ", "i", " ", "T", "A", "I", "L", "_", "D", "O", "W", "N", " ",
      "3", " ", "{", "\n", " ", "p", "u", "r", "r", " ", "i", "\n", " ",
      "i", " ", "=", " ", "i", " ", "@", " ", "1", "\n", "}">>

Src_division_by_zero == <<"p", "u", "r", "r", " ", "1", "\n", "p", "u", "r", "r", " ", "1", "0",
      " ", "^", " ", "0", "\n", "p", "u", "r", "r", " ", "2">>

Src_nil_equality == <<"p", "u", "r", "r", " ", "n", "i", "l", " ", "P", "S", "P", "S", "P",
      "S", " ", "n", "i", "l", "\n", "p", "u", "r", "r", " ", "n", "i",
      "l", " ", "P", "S", "P", "S", "P", "S", " ", "f", "a", "l", "s", "e">>

\* a callee reads x: the x of its defining scope, not the caller's
Src_lexical_scope ==
    <<"m", "e", "o", "w", " ", "x", " ", "=", " ", "1", "\n", "p", "r", "r",
      "r", " ", "f", "(", ")", " ", "{", "\n", " ", "m", "e", "w", " ",
      "x", "\n", "}", "\n", "p", "r", "r", "r", " ", "g", "(", ")", " ",
      "{", "\n", " ", "m", "e", "o", "w", " ", "x", " ", "=", " ", "2",
      "\n", " ", "m", "e", "w", " ", "f", "(", ")", "\n", "}", "\n", "p",
      "u", "r", "r", " ", "g", "(", ")">>

\* mew inside while, if and block; a caller that goes on; bodies without a value
Src_return_nesting ==
    <<"p", "r", "r", "r", " ", "g", "(", "n", ")", " ", "{", "\n", " ", "m",
      "r", "r", "r", " ", "t", "r", "u", "e", " ", "{", "\n", " ", " ",
      "g", "r", "r", " ", "n", " ", "{", "\n", " ", " ", " ", "{", "\n",
      " ", " ", " ", " ", "m", "e", "w", " ", "n", "\n", " ", " ", " ",
      "}", "\n", " ", " ", "}", "\n", " ", " ", "p", "u", "r", "r", " ",
      "\"", "n", "o", "\"", "\n", " ", "}", "\n", " ", "p", "u", "r", "r",
      " ", "\"", "n", "o", "\"", "\n", "}", "\n", "p", "r", "r", "r", " ",
      "f", "(", ")", " ", "{", "\n", " ", "m", "e", "o", "w", " ", "r",
      " ", "=", " ", "g", "(", "1", ")", "\n", " ", "p", "u", "r", "r",
      " ", "\"", "f", "\"", "\n", " ", "m", "e", "w", " ", "r", " ", "@",
      " ", "1", "\n", " ", "p", "u", "r", "r", " ", "\"", "n", "o", "\"",
      "\n", "}", "\n", "p", "u", "r", "r", " ", "f", "(", ")", "\n", "p",
      "r", "r", "r", " ", "h", "(", ")", " ", "{", "\n", " ", "p", "u",
      "r", "r", " ", "\"", "h", "\"", "\n", "}", "\n", "p", "u", "r", "r",
      " ", "h", "(", ")", "\n", "p", "r", "r", "r", " ", "k", "(", ")",
      " ", "{", "\n", " ", "m", "e", "w", "\n", "}", "\n", "p", "u", "r",
      "r", " ", "k", "(", ")">>

Src_return_top_level == <<"p", "u", "r", "r", " ", "1", "\n", "m", "e", "w", " ", "3", "\n", "p",
      "u", "r", "r", " ", "2">>

\* parse errors
Src_error_middle == <<"p", "u", "r", "r", " ", "1", "\n", "p", "u", "r", "r", " ", ")", "\n",
      "p", "u", "r", "r", " ", "2">>

Src_error_only == <<"p", "u", "r", "r", " ", ")">>

Src_error_function_header == <<"p", "r", "r", "r", " ", "(", "a", ")", " ", "{", "\n", " ", "p", "u",
      "r", "r", " ", "1", "\n", "}", "\n", "p", "u", "r", "r", " ", "2">>

Src_error_unclosed_block == <<"p", "u", "r", "r", " ", "1", "\n", "{", "\n", " ", "p", "u", "r", "r",
      " ", "2", "\n", "p", "u", "r", "r", " ", "3">>

Src_error_stray_brace == <<"}", "\n", "p", "u", "r", "r", " ", "1", "\n", ")">>

Src_error_assignment_target == <<"m", "e", "o", "w", " ", "a", " ", "=", " ", "1", "\n", "(", "a", ")",
      " ", "=", " ", "2", "\n", "p", "u", "r", "r", " ", "a">>

Src_error_last_token == <<"p", "u", "r", "r", " ", "1", "\n", "m", "e", "w">>

\* while conditions
Src_while_string == <<"p", "u", "r", "r", " ", "1", "\n", "m", "r", "r", "r", " ", "\"", "s",
      "\"", " ", "{", "\n", " ", "p", "u", "r", "r", " ", "2", "\n", "}">>

Src_while_concat == <<"p", "u", "r", "r", " ", "1", "\n", "m", "r", "r", "r", " ", "\"", "a",
      "\"", " ", "@", " ", "\"", "b", "\"", " ", "{", "\n", " ", "p", "u",
      "r", "r", " ", "2", "\n", "}">>

Src_while_countdown == <<"m", "e", "o", "w", " ", "n", " ", "=", " ", "2", "\n", "m", "r", "r",
      "r", " ", "n", " ", "{", "\n", " ", "p", "u", "r", "r", " ", "n",
      "\n", " ", "n", " ", "=", " ", "n", " ", "%", " ", "1", "\n", "}",
      "\n", "p", "u", "r", "r", " ", "\"", "e", "n", "d", "\"">>

\* scopes, assignment, logical operators, runtime errors
Src_shadow ==
    <<"m", "e", "o", "w", " ", "a", " ", "=", " ", "1", "\n", "{", "\n", " ",
      "m", "e", "o", "w", " ", "a", " ", "=", " ", "2", "\n", " ", "p",
      "u", "r", "r", " ", "a", "\n", " ", "m", "e", "o", "w", " ", "a",
      " ", "=", " ", "3", "\n", " ", "p", "u", "r", "r", " ", "a", "\n",
      " ", "p", "r", "r", "r", " ", "a", "(", ")", " ", "{", "\n", " ",
      "}", "\n", "}", "\n", "p", "u", "r", "r", " ", "a", "\n", "m", "e",
      "o", "w", " ", "a", " ", "=", " ", "4", "\n", "p", "u", "r", "r",
      " ", "a">>

Src_assign ==
    <<"m", "e", "o", "w", " ", "a", " ", "=", " ", "1", "\n", "m", "e", "o",
      "w", " ", "b", " ", "=", " ", "2", "\n", "{", "\n", " ", "m", "e",
      "o", "w", " ", "b", " ", "=", " ", "3", "\n", " ", "a", " ", "=",
      " ", "(", "b", " ", "=", " ", "5", ")", "\n", " ", "p", "u", "r",
      "r", " ", "b", "\n", "}", "\n", "p", "u", "r", "r", " ", "a", "\n",
      "p", "u", "r", "r", " ", "b", "\n", "c", " ", "=", " ", "1", "\n",
      "p", "u", "r", "r", " ", "a">>

Src_short_circuit ==
    <<"p", "r", "r", "r", " ", "s", "i", "d", "e", "(", ")", " ", "{", "\n",
      " ", "p", "u", "r", "r", " ", "\"", "s", "i", "d", "e", "\"", "\n",
      " ", "m", "e", "w", " ", "7", "\n", "}", "\n", "p", "u", "r", "r",
      " ", "f", "a", "l", "s", "e", " ", "a", "n", "d", " ", "s", "i", "d",
      "e", "(", ")", "\n", "p", "u", "r", "r", " ", "t", "r", "u", "e",
      " ", "o", "r", " ", "s", "i", "d", "e", "(", ")", "\n", "p", "u",
      "r", "r", " ", "t", "r", "u", "e", " ", "a", "n", "d", " ", "s", "i",
      "d", "e", "(", ")", "\n", "p", "u", "r", "r", " ", "n", "i", "l",
      " ", "o", "r", " ", "s", "i", "d", "e", "(", ")", "\n", "p", "u",
      "r", "r", " ", "0", " ", "o", "r", " ", "\"", "x", "\"">>

Src_error_in_block ==
    <<"p", "r", "r", "r", " ", "f", "(", "a", ")", " ", "{", "\n", " ", "{",
      "\n", " ", " ", "p", "u", "r", "r", " ", "a", " ", "%", " ", "\"",
      "a", "\"", "\n", " ", " ", "p", "u", "r", "r", " ", "\"", "n", "o",
      "\"", "\n", " ", "}", "\n", "}", "\n", "p", "u", "r", "r", " ", "\"",
      "b", "e", "f", "o", "r", "e", "\"", "\n", "f", "(", "1", ")", "\n",
      "p", "u", "r", "r", " ", "\"", "a", "f", "t", "e", "r", "\"">>

Src_call_number == <<"m", "e", "o", "w", " ", "x", " ", "=", " ", "1", "\n", "x", "(", ")">>

Src_call_arity == <<"p", "r", "r", "r", " ", "f", "(", "a", ")", " ", "{", "\n", "}", "\n",
      "p", "u", "r", "r", " ", "f", "(", "1", ")", "\n", "f", "(", ")">>

Src_if_else == <<"g", "r", "r", " ", "0", " ", "{", "\n", " ", "p", "u", "r", "r", " ",
      "1", "\n", "}", " ", "g", "r", "r", "r", " ", "{", "\n", " ", "p",
      "u", "r", "r", " ", "2", "\n", "}", "\n", "g", "r", "r", " ", "n",
      "i", "l", " ", "{", "\n", " ", "p", "u", "r", "r", " ", "3", "\n",
      "}", "\n", "g", "r", "r", " ", "\"", "s", "\"", " ", "{", "\n", " ",
      "p", "u", "r", "r", " ", "4", "\n", "}">>

Src_unary == <<"p", "u", "r", "r", " ", "!", "n", "i", "l", "\n", "p", "u", "r", "r",
      " ", "%", "2", "\n", "p", "u", "r", "r", " ", "%", "0", "\n", "p",
      "u", "r", "r", " ", "%", "\"", "a", "\"">>

Src_fractions == <<"p", "u", "r", "r", " ", "1", ".", "5", " ", "@", " ", "0", ".", "2",
      "5", "\n", "p", "u", "r", "r", " ", "3", " ", "^", " ", "2", "\n",
      "p", "u", "r", "r", " ", "7", " ", "~", " ", "0", ".", "5", "\n",
      "p", "u", "r", "r", " ", "\"", "n", "\"", " ", "@", " ", "2", ".",
      "5">>

\* lexer
Src_blank_lines == <<"#", " ", "o", "n", "e", "\n", "\n", "\n", "p", "u", "r", "r", " ", "1",
      " ", "#", " ", "t", "w", "o", "\n", "\n", " ", "\t", "\n", "\r",
      "p", "u", "r", "r", " ", "2", "\n", "\n">>

Src_multiline_string == <<"p", "u", "r", "r", " ", "\"", "a", "\n", "b", "\"", "\n", "p", "u", "r",
      "r", " ", "1">>

Src_unexpected_character == <<"p", "u", "r", "r", " ", "1", "\n", "p", "u", "r", "r", " ", "2", " ",
      "?", " ", "3">>

Src_unterminated_string == <<"p", "u", "r", "r", " ", "\"", "a", "b", "c">>

Src_trailing_dot == <<"p", "u", "r", "r", " ", "2", ".">>

FixedSources ==
    {Src_add_numbers, Src_cat3, Src_add_function, Src_add_function_lines, Src_counter,
     Src_count_loop, Src_division_by_zero, Src_nil_equality, Src_lexical_scope,
     Src_return_nesting, Src_return_top_level, Src_error_middle, Src_error_only,
     Src_error_function_header, Src_error_unclosed_block, Src_error_stray_brace,
     Src_error_assignment_target, Src_error_last_token, Src_while_string,
     Src_while_concat, Src_while_countdown, Src_shadow, Src_assign, Src_short_circuit,
     Src_error_in_block, Src_call_number, Src_call_arity, Src_if_else, Src_unary,
     Src_fractions, Src_blank_lines, Src_multiline_string, Src_unexpected_character,
     Src_unterminated_string, Src_trailing_dot}

\* Operands of every kind of value: literals, and f, a function the program declares
Operands ==
    {<<"n", "i", "l">>, <<"t", "r", "u", "e">>, <<"f", "a", "l", "s", "e">>, <<"\"", "a", "\"">>, <<"f">>} \cup {IntDigits(n) : n \in 0..MaxNum}

DeclareF == <<"p", "r", "r", "r", " ", "f", "(", ")", " ", "{", "}", "\n">>

BinaryOperators == {<<"@">>, <<"%">>, <<"~">>, <<"^">>, <<"P", "S", "P", "S", "P", "S">>, <<"H", "I", "S", "S", "S">>, <<"T", "A", "I", "L", "_", "U", "P">>}

\* purr a op b
BinarySources ==
    {DeclareF \o <<"p", "u", "r", "r", " ">> \o a \o <<" ">> \o op \o <<" ">> \o b :
        a \in Operands, b \in Operands, op \in BinaryOperators}

\* purr op a
UnarySources == {DeclareF \o <<"p", "u", "r", "r", " ">> \o op \o a : a \in Operands, op \in {<<"!">>, <<"%">>}}

\* A loop whose condition yields a, then b, then false; the condition is x
\* as a variable, in a grouping, under a logical operator and as an assignment.
Conditions == {<<"x">>, <<"(", "x", ")">>, <<"x", " ", "o", "r", " ", "x">>, <<"x", " ", "=", " ", "x">>}

WhileSources ==
    {DeclareF \o <<"m", "e", "o", "w", " ", "x", " ", "=", " ">> \o a \o <<"\n", "m", "e", "o", "w", " ", "y", " ", "=", " ">> \o b \o <<"\n", "m", "r", "r", "r", " ">> \o c
     \o <<" ", "{", "\n", " ", "x", " ", "=", " ", "y", "\n", " ", "y", " ", "=",
      " ", "f", "a", "l", "s", "e", "\n", "}", "\n", "p", "u", "r", "r",
      " ", "\"", "e", "n", "d", "\"">> :
        a \in Operands, b \in Operands, c \in Conditions}

\* each keyword alone, and between blanks
KeywordSources == KeywordTexts \cup {<<" ">> \o k \o <<" ">> : k \in KeywordTexts}

\* every text of up to MaxChars characters over newline, blank, comment
\* sign, a letter and the string quote
MaxChars == 4

LexerAlphabet == {"\n", " ", "#", "a", "\""}

LexerSources == UNION {[1..n -> LexerAlphabet] : n \in 1..MaxChars}

\* every text of up to MaxWords of these words: braces, a closing
\* parenthesis, newline, a name, the assignment sign and two keywords
MaxWords == 3

ParserWords ==
    {<<"{">>, <<"}">>, <<")">>, <<"\n">>, <<"a">>, <<"=">>,
     <<"p", "u", "r", "r", " ">>, <<"p", "r", "r", "r", " ">>}

RECURSIVE Flatten(_)
Flatten(words) == IF words = <<>> THEN <<>> ELSE Head(words) \o Flatten(Tail(words))

ParserSources == {Flatten(ws) : ws \in UNION {[1..n -> ParserWords] : n \in 1..MaxWords}}

Sources ==
    FixedSources \cup BinarySources \cup UnarySources \cup WhileSources \cup KeywordSources
    \cup LexerSources \cup ParserSources

Init ==
    /\ \E src \in Sources : lexer = Lexer(src)
    /\ parser = Parser(<<>>)
    /\ statements = <<>>
    /\ interpreter = [globals |-> 0, environment |-> 0]
    /\ envs = <<>>
    /\ funcs = <<>>
    /\ stack = <<>>
    /\ ctl = Idle
    /\ stdout = <<>>
    /\ raised = NoException
    /\ pc = "scan_tokens"

-----------------------------------------------------------------------------
(* run(), Lexer.scan_tokens, Parser.parse *)

\* one iteration of the loop of scan_tokens; a LexerError leaves for run()'s handler
scan_token ==
    /\ pc = "scan_tokens" /\ ctl.op = "idle"
    /\ ~lexer_is_at_end(lexer)
    /\ LET r == ScanToken([lexer EXCEPT !.start = lexer.current])
       IN /\ lexer' = r.lexer
          /\ IF r.error
             THEN \E m \in lexer_cat_sounds : ctl' = Raise(LexerError(r.lexer.line, m))
             ELSE ctl' = ctl
    /\ UNCHANGED <<parser, statements, interpreter, envs, funcs, stack, stdout, raised, pc>>

\* the end of scan_tokens, and Parser(tokens)
scan_tokens ==
    /\ pc = "scan_tokens" /\ ctl.op = "idle"
    /\ lexer_is_at_end(lexer)
    /\ lexer' = [lexer EXCEPT !.tokens = Append(lexer.tokens, Token("EOF", <<>>, None, lexer.line))]
    /\ parser' = Parser(lexer'.tokens)
    /\ pc' = "parse"
    /\ UNCHANGED <<statements, interpreter, envs, funcs, stack, ctl, stdout, raised>>

\* stmt is the declaration just parsed: "if stmt: statements.append(stmt)",
\* then the trailing newlines
ParseNext(stmt) ==
    IF stmt.node.class # "None"
    THEN /\ statements' = Append(statements, stmt.node)
         /\ parser' = SkipNewlines(stmt.p)
    ELSE /\ statements' = statements
         /\ parser' = stmt.p

\* one iteration of the loop of parse()
parse ==
    /\ pc = "parse"
    /\ ~is_at_end(parser)
    /\ IF match(parser, {"NEWLINE"})
       THEN parser' = advance(parser) /\ statements' = statements
       ELSE ParseNext(declaration(parser))
    /\ UNCHANGED <<lexer, interpreter, envs, funcs, stack, ctl, stdout, raised, pc>>

\* run(): "if not statements: return"
run_return ==
    /\ pc = "parse"
    /\ is_at_end(parser)
    /\ statements = <<>>
    /\ pc' = "done"
    /\ UNCHANGED <<lexer, parser, statements, interpreter, envs, funcs, stack, ctl,
                   stdout, raised>>

\* run(): Interpreter() and the call of interpret(statements)
interpret ==
    /\ pc = "parse"
    /\ is_at_end(parser)
    /\ statements # <<>>
    /\ envs' = <<Environment(0)>>
    /\ interpreter' = [globals |-> 1, environment |-> 1]
    /\ stack' = <<[fn |-> "interpret", statements |-> statements, i |-> 1]>>
    /\ ctl' = Execute(statements[1])
    /\ pc' = "interpret"
    /\ UNCHANGED <<lexer, parser, statements, funcs, stdout, raised>>

\* the for loop of interpret(): the next statement, or the return to run()
interpret_loop ==
    /\ Returning("interpret")
    /\ IF Top.i < Len(Top.statements)
       THEN /\ stack' = Replace([Top EXCEPT !.i = Top.i + 1])
            /\ ctl' = Execute(Top.statements[Top.i + 1])
            /\ pc' = pc
       ELSE /\ stack' = <<>>
            /\ ctl' = Idle
            /\ pc' = "done"
    /\ UNCHANGED <<lexer, parser, statements, interpreter, envs, funcs, stdout, raised>>

\* the except clauses of interpret()
InterpretExcept(exc) ==
    IF exc.class = "RuntimeError"
    THEN InterpreterError(exc.token, exc.message, exc.class)
    ELSE InterpreterError(Token("EOF", <<>>, None, 0),
                          <<"An unexpected error occurred: ">> \o exc.message,
                          exc.class)

\* an interpret() that drops a failing statement and goes on with the next
interpret_except_goes_on ==
    /\ Raising("interpret")
    /\ IF Top.i < Len(Top.statements)
       THEN /\ stack' = Replace([Top EXCEPT !.i = Top.i + 1])
            /\ ctl' = Execute(Top.statements[Top.i + 1])
       ELSE /\ stack' = <<>>
            /\ ctl' = Raise(InterpretExcept(ctl.exception))
    /\ UNCHANGED <<lexer, parser, statements, interpreter, envs, funcs, stdout, raised, pc>>

interpret_except ==
    /\ Raising("interpret")
    /\ stack' = <<>>
    /\ ctl' = Raise(InterpretExcept(ctl.exception))
    /\ UNCHANGED <<lexer, parser, statements, interpreter, envs, funcs, stdout, raised, pc>>

\* run(): "except Exception as e: print(f"Error: {e}")"
run_except ==
    /\ pc # "done"
    /\ ctl.op = "raise"
    /\ stack = <<>>
    /\ stdout' = Append(stdout, <<"Error: ">> \o ctl.exception.message)
    /\ raised' = ctl.exception
    /\ ctl' = Idle
    /\ pc' = "done"
    /\ UNCHANGED <<lexer, parser, statements, interpreter, envs, funcs, stack>>

-----------------------------------------------------------------------------
(* Statements *)

\* execute_block(stmts, env) called with the frames stk below it: an empty
\* list sets and restores the environment within the call
execute_block(stmts, env, stk) ==
    IF stmts = <<>>
    THEN /\ interpreter' = interpreter
         /\ stack' = stk
         /\ ctl' = ReturnValue(None)
    ELSE /\ interpreter' = [interpreter EXCEPT !.environment = env]
         /\ stack' = Append(stk, [fn |-> "execute_block", statements |-> stmts, i |-> 1,
                                  environment |-> env,
                                  previous |-> interpreter.environment])
         /\ ctl' = Execute(stmts[1])

\* the for loop of execute_block: the next statement, or the normal exit
execute_block_loop ==
    /\ Returning("execute_block")
    /\ IF Top.i < Len(Top.statements)
       THEN /\ stack' = Replace([Top EXCEPT !.i = Top.i + 1])
            /\ ctl' = Execute(Top.statements[Top.i + 1])
            /\ interpreter' = interpreter
       ELSE /\ stack' = Rest
            /\ ctl' = ReturnValue(None)
            /\ interpreter' = [interpreter EXCEPT !.environment = Top.previous]
    /\ UNCHANGED <<lexer, parser, statements, envs, funcs, stdout, raised, pc>>

\* execute_block with the restore after the loop instead of in a finally
\* clause: an exception passing through leaves the environment as it is
execute_block_no_finally ==
    /\ Raising("execute_block")
    /\ stack' = Rest
    /\ UNCHANGED <<lexer, parser, statements, interpreter, envs, funcs, ctl, stdout, raised, pc>>

\* the finally clause of execute_block on an exception passing through
execute_block_finally ==
    /\ Raising("execute_block")
    /\ stack' = Rest
    /\ interpreter' = [interpreter EXCEPT !.environment = Top.previous]
    /\ UNCHANGED <<lexer, parser, statements, envs, funcs, ctl, stdout, raised, pc>>

visit_block_stmt ==
    /\ Executing("Block")
    /\ envs' = Append(envs, Environment(interpreter.environment))
    /\ execute_block(ctl.node.statements, Len(envs) + 1, stack)
    /\ UNCHANGED <<lexer, parser, statements, funcs, stdout, raised, pc>>

visit_expression_stmt ==
    /\ Executing("Expression")
    /\ ctl' = Evaluate(ctl.node.expression)
    /\ UNCHANGED <<lexer, parser, statements, interpreter, envs, funcs, stack, stdout,
                   raised, pc>>

MeowFunction(decl, closure) == [declaration |-> decl, closure |-> closure]

visit_function_stmt ==
    /\ Executing("Function")
    /\ funcs' = Append(funcs, MeowFunction(ctl.node, interpreter.environment))
    /\ envs' = define(envs, interpreter.environment, ctl.node.name.lexeme, FnV(Len(funcs) + 1))
    /\ ctl' = ReturnValue(None)
    /\ UNCHANGED <<lexer, parser, statements, interpreter, stack, stdout, raised, pc>>

visit_if_stmt ==
    /\ Executing("If")
    /\ stack' = Append(stack, [fn |-> "visit_if_stmt", stmt |-> ctl.node])
    /\ ctl' = Evaluate(ctl.node.condition)
    /\ UNCHANGED <<lexer, parser, statements, interpreter, envs, funcs, stdout, raised, pc>>

\* the condition is evaluated: the branch taken
visit_if_stmt_branch ==
    /\ Returning("visit_if_stmt")
    /\ stack' = Rest
    /\ ctl' = IF is_truthy(ctl.value) THEN Execute(Top.stmt.then_branch)
              ELSE IF Top.stmt.else_branch.class # "None"
                   THEN Execute(Top.stmt.else_branch)
                   ELSE ReturnValue(None)
    /\ UNCHANGED <<lexer, parser, statements, interpreter, envs, funcs, stdout, raised, pc>>

visit_print_stmt ==
    /\ Executing("Print")
    /\ stack' = Append(stack, [fn |-> "visit_print_stmt", stmt |-> ctl.node])
    /\ ctl' = Evaluate(ctl.node.expression)
    /\ UNCHANGED <<lexer, parser, statements, interpreter, envs, funcs, stdout, raised, pc>>

\* print(self.stringify(value))
visit_print_stmt_value ==
    /\ Returning("visit_print_stmt")
    /\ stdout' = Append(stdout, stringify(ctl.value))
    /\ stack' = Rest
    /\ ctl' = ReturnValue(None)
    /\ UNCHANGED <<lexer, parser, statements, interpreter, envs, funcs, raised, pc>>

visit_return_stmt ==
    /\ Executing("Return")
    /\ IF ctl.node.value.class # "None"
       THEN /\ stack' = Append(stack, [fn |-> "visit_return_stmt", stmt |-> ctl.node])
            /\ ctl' = Evaluate(ctl.node.value)
       ELSE /\ stack' = stack
            /\ ctl' = Raise(ReturnException(None))
    /\ UNCHANGED <<lexer, parser, statements, interpreter, envs, funcs, stdout, raised, pc>>

\* raise ReturnException(value)
visit_return_stmt_value ==
    /\ Returning("visit_return_stmt")
    /\ stack' = Rest
    /\ ctl' = Raise(ReturnException(ctl.value))
    /\ UNCHANGED <<lexer, parser, statements, interpreter, envs, funcs, stdout, raised, pc>>

visit_var_stmt ==
    /\ Executing("Var")
    /\ IF ctl.node.initializer.class # "None"
       THEN /\ stack' = Append(stack, [fn |-> "visit_var_stmt", stmt |-> ctl.node])
            /\ ctl' = Evaluate(ctl.node.initializer)
            /\ envs' = envs
       ELSE /\ stack' = stack
            /\ envs' = define(envs, interpreter.environment, ctl.node.name.lexeme, None)
            /\ ctl' = ReturnValue(None)
    /\ UNCHANGED <<lexer, parser, statements, interpreter, funcs, stdout, raised, pc>>

\* self.environment.define(stmt.name.lexeme, value)
visit_var_stmt_value ==
    /\ Returning("visit_var_stmt")
    /\ envs' = define(envs, interpreter.environment, Top.stmt.name.lexeme, ctl.value)
    /\ stack' = Rest
    /\ ctl' = ReturnValue(None)
    /\ UNCHANGED <<lexer, parser, statements, interpreter, funcs, stdout, raised, pc>>

visit_while_stmt ==
    /\ Executing("While")
    /\ stack' = Append(stack, [fn |-> "visit_while_stmt", stmt |-> ctl.node, at |-> "check"])
    /\ ctl' = Evaluate(ctl.node.condition)
    /\ UNCHANGED <<lexer, parser, statements, interpreter, envs, funcs, stdout, raised, pc>>

\* isinstance(condition_value, bool) or isinstance(condition_value, float)
IsBoolOrFloat(v) == v.kind \in {"bool", "num"}

\* the node classes that have an operator attribute
HasOperator(class) == class \in {"Binary", "Logical", "Unary"}

\* raise RuntimeError(stmt.condition.operator, ...): reading the attribute
\* raises AttributeError when the condition has none
ConditionError(condition) ==
    IF HasOperator(condition.class)
    THEN RuntimeError(condition.operator, <<"Condition must evaluate to a boolean or number.">>)
    ELSE AttributeError(condition.class, "operator")

\* "while self.is_truthy(condition_value)": into the body, or out of the loop
WhileTest(frame, value) ==
    IF is_truthy(value)
    THEN /\ stack' = Replace([frame EXCEPT !.at = "body"])
         /\ ctl' = Execute(frame.stmt.body)
    ELSE /\ stack' = Rest
         /\ ctl' = ReturnValue(None)

\* the first evaluation of the condition: the type check, then the loop test
visit_while_stmt_check ==
    /\ Returning("visit_while_stmt") /\ Top.at = "check"
    /\ IF ~IsBoolOrFloat(ctl.value)
       THEN /\ stack' = Rest
            /\ ctl' = Raise(ConditionError(Top.stmt.condition))
       ELSE WhileTest(Top, ctl.value)
    /\ UNCHANGED <<lexer, parser, statements, interpreter, envs, funcs, stdout, raised, pc>>

\* the body is executed: condition_value = self.evaluate(stmt.condition)
visit_while_stmt_body ==
    /\ Returning("visit_while_stmt") /\ Top.at = "body"
    /\ stack' = Replace([Top EXCEPT !.at = "again"])
    /\ ctl' = Evaluate(Top.stmt.condition)
    /\ UNCHANGED <<lexer, parser, statements, interpreter, envs, funcs, stdout, raised, pc>>

\* the condition is evaluated again: the loop test
visit_while_stmt_again ==
    /\ Returning("visit_while_stmt") /\ Top.at = "again"
    /\ WhileTest(Top, ctl.value)
    /\ UNCHANGED <<lexer, parser, statements, interpreter, envs, funcs, stdout, raised, pc>>

-----------------------------------------------------------------------------
(* Expressions *)

visit_assign_expr ==
    /\ Evaluating("Assign")
    /\ stack' = Append(stack, [fn |-> "visit_assign_expr", expr |-> ctl.node])
    /\ ctl' = Evaluate(ctl.node.value)
    /\ UNCHANGED <<lexer, parser, statements, interpreter, envs, funcs, stdout, raised, pc>>

\* an assign that binds in the current environment, as define does
assign_in_current(h, target, name, value) ==
    define(h, interpreter.environment, name.lexeme, value)

\* Environment.assign on the heap h, for a name that target holds
assign(h, target, name, value) == [h EXCEPT ![target].values[name.lexeme] = value]

\* self.environment.assign(expr.name, value); return value
visit_assign_expr_value ==
    /\ Returning("visit_assign_expr")
    /\ LET name == Top.expr.name
           target == Resolve(envs, interpreter.environment, name.lexeme)
       IN IF target = 0
          THEN /\ envs' = envs
               /\ ctl' = Raise(UndefinedVariable(name))
          ELSE /\ envs' = assign(envs, target, name, ctl.value)
               /\ ctl' = ReturnValue(ctl.value)
    /\ stack' = Rest
    /\ UNCHANGED <<lexer, parser, statements, interpreter, funcs, stdout, raised, pc>>

visit_binary_expr ==
    /\ Evaluating("Binary")
    /\ stack' = Append(stack, [fn |-> "visit_binary_expr", expr |-> ctl.node, at |-> "left",
                               left |-> None])
    /\ ctl' = Evaluate(ctl.node.left)
    /\ UNCHANGED <<lexer, parser, statements, interpreter, envs, funcs, stdout, raised, pc>>

\* left is evaluated: right = self.evaluate(expr.right)
visit_binary_expr_left ==
    /\ Returning("visit_binary_expr") /\ Top.at = "left"
    /\ stack' = Replace([Top EXCEPT !.at = "right", !.left = ctl.value])
    /\ ctl' = Evaluate(Top.expr.right)
    /\ UNCHANGED <<lexer, parser, statements, interpreter, envs, funcs, stdout, raised, pc>>

\* the outcome of an operator application as the next operation
Outcome(operator, r) ==
    IF r.raises THEN Raise(RuntimeError(operator, r.message)) ELSE ReturnValue(r.value)

\* both operands are evaluated: the operator is applied
visit_binary_expr_right ==
    /\ Returning("visit_binary_expr") /\ Top.at = "right"
    /\ stack' = Rest
    /\ ctl' = Outcome(Top.expr.operator,
                      BinaryApply(Top.expr.operator.type, Top.left, ctl.value))
    /\ UNCHANGED <<lexer, parser, statements, interpreter, envs, funcs, stdout, raised, pc>>

\* environment.define of each parameter, in order
RECURSIVE DefineParams(_, _, _, _)
DefineParams(h, e, params, arguments) ==
    IF params = <<>> THEN h
    ELSE DefineParams(define(h, e, params[1].lexeme, arguments[1]), e,
                      Tail(params), Tail(arguments))

\* dynamic scoping: the body's environment encloses the caller's current one
CallerEnvironment(f) == interpreter.environment

\* the environment a call of the function f runs its body in encloses this one
CallEnclosing(f) == funcs[f].closure

\* MeowFunction.call(interpreter, arguments) with the frames stk below it
MeowFunction_call(f, arguments, stk) ==
    LET environment == Len(envs) + 1
    IN /\ envs' = DefineParams(Append(envs, Environment(CallEnclosing(f))), environment,
                               funcs[f].declaration.params, arguments)
       /\ execute_block(funcs[f].declaration.body, environment,
                        Append(stk, [fn |-> "call", function |-> f]))

arity(f) == Len(funcs[f].declaration.params)

\* visit_call_expr once the callee and the arguments are evaluated
Invoke(expr, callee, arguments, stk) ==
    IF callee.kind # "fn"
    THEN /\ ctl' = Raise(RuntimeError(expr.paren, <<"Can only call functions.">>))
         /\ stack' = stk
         /\ UNCHANGED <<envs, interpreter>>
    ELSE IF Len(arguments) # arity(callee.f)
    THEN /\ ctl' = Raise(RuntimeError(expr.paren,
                      <<"Expected ">> \o IntDigits(arity(callee.f))
                      \o <<" arguments but got ">> \o IntDigits(Len(arguments)) \o <<".">>))
         /\ stack' = stk
         /\ UNCHANGED <<envs, interpreter>>
    ELSE MeowFunction_call(callee.f, arguments, stk)

visit_call_expr ==
    /\ Evaluating("Call")
    /\ stack' = Append(stack, [fn |-> "visit_call_expr", expr |-> ctl.node, at |-> "callee",
                               callee |-> None, arguments |-> <<>>])
    /\ ctl' = Evaluate(ctl.node.callee)
    /\ UNCHANGED <<lexer, parser, statements, interpreter, envs, funcs, stdout, raised, pc>>

\* the callee is evaluated: the first argument, or the call
visit_call_expr_callee ==
    /\ Returning("visit_call_expr") /\ Top.at = "callee"
    /\ IF Top.expr.arguments # <<>>
       THEN /\ stack' = Replace([Top EXCEPT !.at = "arguments", !.callee = ctl.value])
            /\ ctl' = Evaluate(Top.expr.arguments[1])
            /\ UNCHANGED <<envs, interpreter>>
       ELSE Invoke(Top.expr, ctl.value, <<>>, Rest)
    /\ UNCHANGED <<lexer, parser, statements, funcs, stdout, raised, pc>>

\* an argument is evaluated: the next argument, or the call
visit_call_expr_argument ==
    /\ Returning("visit_call_expr") /\ Top.at = "arguments"
    /\ LET arguments == Append(Top.arguments, ctl.value)
       IN IF Len(arguments) < Len(Top.expr.arguments)
          THEN /\ stack' = Replace([Top EXCEPT !.arguments = arguments])
               /\ ctl' = Evaluate(Top.expr.arguments[Len(arguments) + 1])
               /\ UNCHANGED <<envs, interpreter>>
          ELSE Invoke(Top.expr, Top.callee, arguments, Rest)
    /\ UNCHANGED <<lexer, parser, statements, funcs, stdout, raised, pc>>

\* MeowFunction.call: the body completed, "return None"
call_return ==
    /\ Returning("call")
    /\ stack' = Rest
    /\ ctl' = ReturnValue(None)
    /\ UNCHANGED <<lexer, parser, statements, interpreter, envs, funcs, stdout, raised, pc>>

\* MeowFunction.call with a handler that drops the value: "return None"
call_except_drops_value ==
    /\ Raising("call")
    /\ ctl.exception.class = "ReturnException"
    /\ stack' = Rest
    /\ ctl' = ReturnValue(None)
    /\ UNCHANGED <<lexer, parser, statements, interpreter, envs, funcs, stdout, raised, pc>>

\* MeowFunction.call: "except ReturnException as return_value"
call_except ==
    /\ Raising("call")
    /\ ctl.exception.class = "ReturnException"
    /\ stack' = Rest
    /\ ctl' = ReturnValue(ctl.exception.value)
    /\ UNCHANGED <<lexer, parser, statements, interpreter, envs, funcs, stdout, raised, pc>>

\* the frames that handle an exception passing through them
Handles(frame, exception) ==
    \/ frame.fn \in {"interpret", "execute_block"}
    \/ frame.fn = "call" /\ exception.class = "ReturnException"

\* an exception leaves a frame that has no handler for it
unwind ==
    /\ pc = "interpret" /\ ctl.op = "raise" /\ stack # <<>>
    /\ ~Handles(Top, ctl.exception)
    /\ stack' = Rest
    /\ UNCHANGED <<lexer, parser, statements, interpreter, envs, funcs, ctl, stdout, raised, pc>>

visit_grouping_expr ==
    /\ Evaluating("Grouping")
    /\ ctl' = Evaluate(ctl.node.expression)
    /\ UNCHANGED <<lexer, parser, statements, interpreter, envs, funcs, stack, stdout,
                   raised, pc>>

visit_literal_expr ==
    /\ Evaluating("Literal")
    /\ ctl' = ReturnValue(ctl.node.value)
    /\ UNCHANGED <<lexer, parser, statements, interpreter, envs, funcs, stack, stdout,
                   raised, pc>>

visit_logical_expr ==
    /\ Evaluating("Logical")
    /\ stack' = Append(stack, [fn |-> "visit_logical_expr", expr |-> ctl.node])
    /\ ctl' = Evaluate(ctl.node.left)
    /\ UNCHANGED <<lexer, parser, statements, interpreter, envs, funcs, stdout, raised, pc>>

\* eager operators: the right operand is evaluated whatever the left one is
EvaluatesBoth(type, left) == FALSE

\* whether the left value is the result, without the right operand
ShortCircuits(type, left) ==
    IF type = "OR" THEN is_truthy(left) ELSE ~is_truthy(left)

\* left is evaluated: it is the result, or the right operand is
visit_logical_expr_left ==
    /\ Returning("visit_logical_expr")
    /\ stack' = Rest
    /\ ctl' = IF ShortCircuits(Top.expr.operator.type, ctl.value)
              THEN ReturnValue(ctl.value)
              ELSE Evaluate(Top.expr.right)
    /\ UNCHANGED <<lexer, parser, statements, interpreter, envs, funcs, stdout, raised, pc>>

visit_unary_expr ==
    /\ Evaluating("Unary")
    /\ stack' = Append(stack, [fn |-> "visit_unary_expr", expr |-> ctl.node])
    /\ ctl' = Evaluate(ctl.node.right)
    /\ UNCHANGED <<lexer, parser, statements, interpreter, envs, funcs, stdout, raised, pc>>

\* the operand is evaluated: the operator is applied
visit_unary_expr_right ==
    /\ Returning("visit_unary_expr")
    /\ stack' = Rest
    /\ ctl' = Outcome(Top.expr.operator, UnaryApply(Top.expr.operator.type, ctl.value))
    /\ UNCHANGED <<lexer, parser, statements, interpreter, envs, funcs, stdout, raised, pc>>

\* Environment.get
visit_variable_expr ==
    /\ Evaluating("Variable")
    /\ LET name == ctl.node.name
           holder == Resolve(envs, interpreter.environment, name.lexeme)
       IN ctl' = IF holder = 0 THEN Raise(UndefinedVariable(name))
                 ELSE ReturnValue(envs[holder].values[name.lexeme])
    /\ UNCHANGED <<lexer, parser, statements, interpreter, envs, funcs, stack, stdout,
                   raised, pc>>

-----------------------------------------------------------------------------

Next ==
    \/ scan_token
    \/ scan_tokens
    \/ parse
    \/ run_return
    \/ interpret
    \/ interpret_loop
    \/ interpret_except
    \/ run_except
    \/ execute_block_loop
    \/ execute_block_finally
    \/ visit_block_stmt
    \/ visit_expression_stmt
    \/ visit_function_stmt
    \/ visit_if_stmt
    \/ visit_if_stmt_branch
    \/ visit_print_stmt
    \/ visit_print_stmt_value
    \/ visit_return_stmt
    \/ visit_return_stmt_value
    \/ visit_var_stmt
    \/ visit_var_stmt_value
    \/ visit_while_stmt
    \/ visit_while_stmt_check
    \/ visit_while_stmt_body
    \/ visit_while_stmt_again
    \/ visit_assign_expr
    \/ visit_assign_expr_value
    \/ visit_binary_expr
    \/ visit_binary_expr_left
    \/ visit_binary_expr_right
    \/ visit_call_expr
    \/ visit_call_expr_callee
    \/ visit_call_expr_argument
    \/ call_return
    \/ call_except
    \/ unwind
    \/ visit_grouping_expr
    \/ visit_literal_expr
    \/ visit_logical_expr
    \/ visit_logical_expr_left
    \/ visit_unary_expr
    \/ visit_unary_expr_right
    \/ visit_variable_expr

Spec == Init /\ [][Next]_vars

-----------------------------------------------------------------------------
(* Properties.  The operands of an operator are known at the step that     *)
(* applies it: the left one is in the frame, the right one is the value    *)
(* being returned to it.                                                   *)

\* visit_binary_expr is about to apply the operator type
ApplyingBinary(type) ==
    Returning("visit_binary_expr") /\ Top.at = "right" /\ Top.expr.operator.type = type

\* visit_unary_expr is about to apply the operator type
ApplyingUnary(type) ==
    Returning("visit_unary_expr") /\ Top.expr.operator.type = type

\* C1: when the parser recorded a parse error, run() does not hand the
\* program to the evaluator: no statement is executed and nothing is
\* printed, even if other declarations parsed.
C1_ParseErrorHaltsRun ==
    parser.had_error => pc # "interpret" /\ stdout = <<>>

\* C1, the case: a program with a parse error between two purr statements
\* has run to its end and has printed both lines.
C1_PrintedDespiteParseError ==
    /\ lexer.source = Src_error_middle
    /\ pc = "done" /\ parser.had_error
    /\ stdout = <<<<"1">>, <<"2">>>>

\* C2: "@" with at least one string operand yields the concatenation of the
\* display strings (stringify, as purr shows them) of its two operands.
C2_ConcatenatesDisplayStrings ==
    [][ApplyingBinary("PAW_PAW") /\ (Top.left.kind = "str" \/ ctl.value.kind = "str")
         => ctl' = ReturnValue(StrV(stringify(Top.left) \o stringify(ctl.value)))]_vars

\* C2, the case: meow x = "cat", purr x @ 3 has run and has printed cat3.0
C2_Cat3PrintsFraction ==
    /\ lexer.source = Src_cat3
    /\ pc = "done"
    /\ stdout = <<<<"c", "a", "t", "3", ".", "0">>>>

\* C3: a source that is one keyword of the table, alone or between blanks,
\* lexes to exactly one token of the table's kind whose lexeme is the whole
\* word (followed by EOF).
C3_KeywordIsOneToken ==
    \A k \in keywords :
        pc # "scan_tokens" /\ lexer.source \in {k[1], <<" ">> \o k[1] \o <<" ">>}
            => lexer.tokens = <<Token(k[2], k[1], None, 1), Token("EOF", <<>>, None, 1)>>

\* C3, the case: TAIL_UP is lexed and has become two identifiers
C3_TailUpIsTwoIdentifiers ==
    /\ lexer.source = <<"T", "A", "I", "L", "_", "U", "P">>
    /\ pc # "scan_tokens"
    /\ lexer.tokens = <<Token("IDENTIFIER", <<"T", "A", "I", "L">>, None, 1),
                        Token("IDENTIFIER", <<"_", "U", "P">>, None, 1),
                        Token("EOF", <<>>, None, 1)>>

\* two values of the same kind with the same content
SameKindAndContent(a, b) ==
    /\ a.kind = b.kind
    /\ IF a.kind = "num" THEN FloatEq(a, b) ELSE a = b

\* C4: a PSPSPS b is true exactly when a and b are of the same kind and have
\* the same content, and a HISSS b is the negation; a boolean never equals a
\* number.
C4_EqualityBySameKind ==
    [][/\ ApplyingBinary("PSPSPS")
            => ctl' = ReturnValue(BoolV(SameKindAndContent(Top.left, ctl.value)))
       /\ ApplyingBinary("HISSS")
            => ctl' = ReturnValue(BoolV(~SameKindAndContent(Top.left, ctl.value)))]_vars

\* C4, the case: true PSPSPS 1 has been evaluated to true
C4_TrueEqualsOne ==
    /\ lexer.source = DeclareF \o <<"p", "u", "r", "r", " ", "t", "r", "u", "e", " ",
                                    "P", "S", "P", "S", "P", "S", " ", "1">>
    /\ pc = "done"
    /\ stdout = <<<<"t", "r", "u", "e">>>>

\* the next operation raises a RuntimeError
FailsWithRuntimeError == ctl'.op = "raise" /\ ctl'.exception.class = "RuntimeError"

\* C5: binary %, ~, ^ and unary % raise a runtime error unless every operand
\* is of number kind; binary @ raises one unless both operands are numbers or
\* at least one is a string.  A boolean or nil is never taken for a number.
C5_ArithmeticRejectsNonNumbers ==
    [][/\ (\E type \in {"SCRATCH", "PURR_PURR", "FEED"} : ApplyingBinary(type))
          /\ ~(Top.left.kind = "num" /\ ctl.value.kind = "num")
            => FailsWithRuntimeError
       /\ ApplyingBinary("PAW_PAW")
          /\ ~(Top.left.kind = "num" /\ ctl.value.kind = "num")
          /\ ~(Top.left.kind = "str" \/ ctl.value.kind = "str")
            => FailsWithRuntimeError
       /\ ApplyingUnary("SCRATCH") /\ ctl.value.kind # "num"
            => FailsWithRuntimeError]_vars

\* C5, the case: %true has been evaluated to the number -1
C5_NegatedTrueIsANumber ==
    /\ lexer.source = DeclareF \o <<"p", "u", "r", "r", " ", "%", "t", "r", "u", "e">>
    /\ pc = "done"
    /\ stdout = <<<<"-", "1">>>>

\* C6: every evaluation of a while condition, the first one and each one
\* after an iteration of the body, that yields a value that is neither a
\* boolean nor a number makes the loop fail with an error.
C6_ConditionCheckedOnEveryEvaluation ==
    [][(Returning("visit_while_stmt") /\ Top.at \in {"check", "again"}
        /\ ctl.value.kind \notin {"bool", "num"})
            => ctl'.op = "raise"]_vars

\* C6, the case: a condition came out as a string after an iteration, and
\* the loop went into its body once more
C6_StringConditionRunsBody ==
    /\ pc = "interpret" /\ ctl.op = "execute"
    /\ stack # <<>> /\ Top.fn = "visit_while_stmt" /\ Top.at = "body"
    /\ Resolve(envs, interpreter.environment, <<"x">>) # 0
    /\ envs[Resolve(envs, interpreter.environment, <<"x">>)].values[<<"x">>].kind = "str"
    /\ \E i \in 1..Len(envs) :
           <<"y">> \in DOMAIN envs[i].values
           /\ envs[i].values[<<"y">>] = BoolV(FALSE)

\* C7: a runtime error that interpret() surfaces carries the 1-based line of
\* a token of the source; a rejected while condition is never reported with
\* line 0.  (The return signal of a top-level mew is not a runtime error of
\* the claim's list and is left out.)
C7_RuntimeErrorCarriesLine ==
    raised.class = "InterpreterError" /\ raised.context # "ReturnException"
        => raised.token.line \in 1..lexer.line

\* C7, the case: a while loop over a string literal was rejected, and the
\* error names line 0
C7_RejectedConditionAtLineZero ==
    /\ lexer.source = Src_while_string
    /\ pc = "done"
    /\ raised.class = "InterpreterError"
    /\ raised.context = "AttributeError"
    /\ raised.token.line = 0

\* the frames of execute_block on the stack, outermost first
BlockFrames == SelectSeq(stack, LAMBDA frame : frame.fn = "execute_block")

\* the step leaves the innermost call of execute_block
LeavesExecuteBlock ==
    pc = "interpret" /\ stack # <<>> /\ Top.fn = "execute_block" /\ stack' = Rest

\* C8: whenever execute_block is left, by normal completion, by a return
\* passing through or by a propagating runtime error, the current
\* environment is again the one that was current on entry; so between
\* blocks the current environment is that of the innermost block still
\* running, and once interpret() has returned or raised it is the global
\* environment.
C8_ScopeRestoration ==
    /\ [][LeavesExecuteBlock => interpreter'.environment = Top.previous]_vars
    /\ [](pc \in {"interpret", "done"} /\ interpreter.globals # 0
            => LET frames == BlockFrames
               IN /\ interpreter.environment =
                         IF frames = <<>> THEN interpreter.globals
                         ELSE frames[Len(frames)].environment
                  /\ \A i \in 1..Len(frames) :
                         frames[i].previous = IF i = 1 THEN interpreter.globals
                                              ELSE frames[i - 1].environment)

\* C8, the case: a runtime error raised in a block inside a function body
\* has left both calls of execute_block and reached the function call, and
\* the current environment is the caller's (the global one) again.
C8_RestoredAfterError ==
    /\ Raising("call")
    /\ ctl.exception.class = "RuntimeError"
    /\ Len(envs) >= 3
    /\ interpreter.environment = interpreter.globals

\* the step starts a call of the function f from visit_call_expr
CallStarts(f) ==
    /\ Returning("visit_call_expr")
    /\ Len(stack') >= Len(stack)
    /\ stack'[Len(stack)].fn = "call"
    /\ stack'[Len(stack)].function = f

\* C9: a call runs the body in a fresh environment whose enclosing
\* environment is the one that was current when the function's declaration
\* was executed, not the caller's; the bindings of the defining scope live
\* on after it has exited: the counter program prints 1, 2, then 1 for a
\* second counter, then 3, and a callee reads its defining scope's variable.
C9_LexicalClosure ==
    /\ [][/\ Executing("Function")
               => /\ Len(funcs') = Len(funcs) + 1
                  /\ funcs'[Len(funcs')].closure = interpreter.environment
          /\ \A f \in 1..Len(funcs) :
                 /\ funcs'[f] = funcs[f]
                 /\ CallStarts(f)
                      => /\ Len(envs') = Len(envs) + 1
                         /\ envs'[Len(envs')].enclosing = funcs[f].closure
                         /\ Len(stack') > Len(stack)
                              => /\ stack'[Len(stack')].environment = Len(envs')
                                 /\ interpreter'.environment = Len(envs')]_vars
    /\ [](pc = "done" /\ lexer.source = Src_counter
            => stdout = <<<<"1">>, <<"2">>, <<"1">>, <<"3">>>>)
    /\ [](pc = "done" /\ lexer.source = Src_lexical_scope => stdout = <<<<"1">>>>)

\* C9, the case: a function runs whose defining scope was a call that has
\* exited, called from a scope that is not its defining one.
C9_ClosureOutlivesScope ==
    /\ pc = "interpret"
    /\ \E i \in 1..(Len(stack) - 1) :
           /\ stack[i].fn = "call"
           /\ stack[i + 1].fn = "execute_block"
           /\ funcs[stack[i].function].closure # interpreter.globals
           /\ funcs[stack[i].function].closure # stack[i + 1].previous
           /\ envs[stack[i + 1].environment].enclosing = funcs[stack[i].function].closure
           /\ \A j \in 1..Len(stack) :
                  stack[j].fn = "execute_block"
                      => stack[j].environment # funcs[stack[i].function].closure

\* a function invocation is active
InCall == \E i \in 1..Len(stack) : stack[i].fn = "call"

\* the return signal of mew is passing through the frames
Returns == pc = "interpret" /\ ctl.op = "raise" /\ ctl.exception.class = "ReturnException"

\* C10: the return signal of a mew inside a function leaves every frame up
\* to the innermost function invocation without executing anything, and
\* that invocation yields the returned value to its call expression, the
\* frames below it untouched; a body that completes without mew yields nil.
\* The signal does not surface as an error from inside a call.
C10_ReturnUnwinding ==
    /\ [][/\ Returns /\ InCall
               => /\ stack' = Rest
                  /\ stdout' = stdout /\ envs' = envs
                  /\ ctl' = IF Top.fn = "call" THEN ReturnValue(ctl.exception.value)
                            ELSE ctl
          /\ Returning("call") => ctl' = ReturnValue(None) /\ stack' = Rest]_vars
    /\ [](pc = "done" /\ lexer.source = Src_return_nesting
            => /\ stdout = <<<<"f">>, <<"2">>, <<"h">>, <<"n", "i", "l">>, <<"n", "i", "l">>>>
               /\ raised = NoException)

\* C10, the case: a mew three levels deep in the body of g has ended g's
\* invocation, and its value 1 is back in f, whose invocation goes on.
C10_ReturnedToCaller ==
    /\ lexer.source = Src_return_nesting
    /\ pc = "interpret" /\ ctl.op = "return"
    /\ ctl.value = NumV(FALSE, 1, 1)
    /\ stack # <<>> /\ Top.fn = "visit_var_stmt"
    /\ InCall

\* C11: in L or R with L truthy, and in L and R with L falsy, R is not
\* evaluated and the result is L's value itself; otherwise R is evaluated
\* once, after L, and R's value is the result.  The program of side(), a
\* function that prints, shows it: side is printed only for the two
\* operators that go on to R.
C11_ShortCircuit ==
    /\ [][Returning("visit_logical_expr")
            => /\ stack' = Rest
               /\ stdout' = stdout /\ envs' = envs
               /\ ctl' = IF \/ Top.expr.operator.type = "OR" /\ is_truthy(ctl.value)
                            \/ Top.expr.operator.type = "AND" /\ ~is_truthy(ctl.value)
                         THEN ReturnValue(ctl.value)
                         ELSE Evaluate(Top.expr.right)]_vars
    /\ [](pc = "done" /\ lexer.source = Src_short_circuit
            => stdout = <<<<"f", "a", "l", "s", "e">>, <<"t", "r", "u", "e">>,
                          <<"s", "i", "d", "e">>, <<"7">>,
                          <<"s", "i", "d", "e">>, <<"7">>, <<"x">>>>)

\* C11, the case: false and side() has yielded false to purr, and side has
\* printed nothing.
C11_RightOperandSkipped ==
    /\ lexer.source = Src_short_circuit
    /\ Returning("visit_print_stmt")
    /\ ctl.value = BoolV(FALSE)
    /\ stdout = <<>>

\* the environments on the chain of e, innermost first
RECURSIVE Chain(_)
Chain(e) == IF e = 0 THEN <<>> ELSE <<e>> \o Chain(envs[e].enclosing)

\* the positions on the current chain whose environment binds name
Binders(name) ==
    {i \in 1..Len(Chain(interpreter.environment)) :
        name \in DOMAIN envs[Chain(interpreter.environment)[i]].values}

\* C12: x = e, once e is evaluated, writes the value into the innermost
\* environment on the current chain that binds x, changes no other binding
\* and no other environment, and yields the value; when no environment on
\* the chain binds x it raises a runtime error and changes no environment.
\* In the program with a = (b = 5) inside a block that declares b, the
\* block's b and the global a become 5 and the global b stays 2; the
\* assignment to the undeclared c ends the run with an error.
C12_Assignment ==
    /\ [][Returning("visit_assign_expr")
            => LET x == Top.expr.name.lexeme
                   chain == Chain(interpreter.environment)
               IN IF Binders(x) = {}
                  THEN /\ envs' = envs
                       /\ ctl'.op = "raise" /\ ctl'.exception.class = "RuntimeError"
                  ELSE LET target == chain[CHOOSE i \in Binders(x) :
                                               \A j \in Binders(x) : i <= j]
                       IN /\ Len(envs') = Len(envs)
                          /\ \A e \in 1..Len(envs) :
                                 /\ envs'[e].enclosing = envs[e].enclosing
                                 /\ DOMAIN envs'[e].values = DOMAIN envs[e].values
                                 /\ \A n \in DOMAIN envs[e].values :
                                        envs'[e].values[n] =
                                            IF e = target /\ n = x THEN ctl.value
                                            ELSE envs[e].values[n]
                          /\ ctl' = ReturnValue(ctl.value)]_vars
    /\ [](pc = "done" /\ lexer.source = Src_assign
            => /\ Len(stdout) = 4
               /\ SubSeq(stdout, 1, 3) = <<<<"5">>, <<"5">>, <<"2">>>>
               /\ raised.class = "InterpreterError"
               /\ DOMAIN envs[1].values = {<<"a">>, <<"b">>})

\* C12, the case: a = (b = 5) has been evaluated inside the block: the
\* block's b and the global a are 5, the global b is still 2.
C12_NestedAssignmentDone ==
    /\ lexer.source = Src_assign
    /\ pc = "interpret" /\ ctl.op = "return" /\ ctl.value = NumV(FALSE, 5, 1)
    /\ Len(envs) = 2
    /\ envs[2].values[<<"b">>] = NumV(FALSE, 5, 1)
    /\ envs[1].values[<<"a">>] = NumV(FALSE, 5, 1)
    /\ envs[1].values[<<"b">>] = NumV(FALSE, 2, 1)

\* scan_tokens has returned the token list: the lexer accepted the source
Accepted == pc # "scan_tokens"

\* the kinds of the tokens, in order
TokenTypes(tokens) == [i \in 1..Len(tokens) |-> tokens[i].type]

\* C13: the token list never holds two adjacent NEWLINE tokens, and the
\* list scan_tokens returns for an accepted source ends with EOF, which
\* occurs nowhere else in it.
C13_NewlinesCollapseAndOneEOF ==
    /\ \A i \in 1..(Len(lexer.tokens) - 1) :
           ~(lexer.tokens[i].type = "NEWLINE" /\ lexer.tokens[i + 1].type = "NEWLINE")
    /\ Accepted /\ raised.class # "LexerError"
         => /\ lexer.tokens # <<>>
            /\ \A i \in 1..Len(lexer.tokens) :
                   lexer.tokens[i].type = "EOF" <=> i = Len(lexer.tokens)

\* C13, the case: a source with comment lines, blank lines and a
\* whitespace-only line between its two statements is lexed.
C13_BlankLinesLexed ==
    /\ lexer.source = Src_blank_lines
    /\ Accepted
    /\ TokenTypes(lexer.tokens) =
           <<"PURR", "NUMBER", "NEWLINE", "PURR", "NUMBER", "NEWLINE", "EOF">>

\* C14: the program prrr add(a, b) { mew a @ b } followed by purr add(2, 3),
\* the function's body and its closing brace on one line, parses without
\* error to a function declaration and a print statement, and prints 5.
C14_OneLineFunctionPrintsFive ==
    lexer.source = Src_add_function /\ pc = "done"
        => /\ ~parser.had_error
           /\ [i \in 1..Len(statements) |-> statements[i].class] = <<"Function", "Print">>
           /\ stdout = <<<<"5">>>>

\* C14, the case: the program has run to its end with a parse error, no
\* statement and no output.
C14_OneLineFunctionIsRejected ==
    /\ lexer.source = Src_add_function
    /\ pc = "done"
    /\ parser.had_error
    /\ statements = <<>>
    /\ stdout = <<>>

\* a runtime error is propagating, as raised or as interpret() re-raised it
Failing ==
    /\ pc = "interpret" /\ ctl.op = "raise"
    /\ ctl.exception.class \in {"RuntimeError", "InterpreterError"}
    /\ ctl.exception.context \in {"None", "RuntimeError"}

\* the lines of stdout that are diagnostics of run()
Diagnostics == {i \in 1..Len(stdout) : stdout[i][1] = "Error: "}

\* C15: from the point where a runtime error is raised nothing more is
\* executed or evaluated: no binding and no function changes, the output
\* already written stays as it is, and the run ends with one diagnostic
\* appended to it.  So the output of a run holds at most one diagnostic,
\* in the last place; the program that divides by zero in its second of
\* three purr statements prints 1 and the diagnostic of line 2.
C15_RuntimeErrorAborts ==
    /\ [][Failing
            => /\ envs' = envs /\ funcs' = funcs
               /\ ctl'.op \in {"raise", "idle"}
               /\ IF ctl'.op = "raise"
                  THEN stdout' = stdout /\ pc' = pc
                  ELSE /\ pc' = "done"
                       /\ ctl.exception.class = "InterpreterError"
                       /\ stdout' = Append(stdout, <<"Error: ">> \o ctl.exception.message)]_vars
    /\ [](Diagnostics \subseteq (IF pc = "done" THEN {Len(stdout)} ELSE {}))
    /\ [](pc = "done" /\ lexer.source = Src_division_by_zero
            => stdout = <<<<"1">>,
                          <<"Error: ", "Line ", "2", ": ", "Division by zero.">>>>)

\* C15, the case: a runtime error raised in a block in a function called
\* between two purr statements has ended the run: the first line and the
\* diagnostic are the output.
C15_AbortedInsideCall ==
    /\ lexer.source = Src_error_in_block
    /\ pc = "done"
    /\ Len(stdout) = 2
    /\ stdout[1] = <<"b", "e", "f", "o", "r", "e">>
    /\ Diagnostics = {2}
    /\ raised.class = "InterpreterError" /\ raised.token.line = 3

\* the 1-based line of the character at offset k of the text
LineAt(text, k) == 1 + Cardinality({i \in 1..k : text[i] = NL})

\* C16: the token that a call of scan_token adds carries the line of its
\* first character, the one at self.start: a NEWLINE token the line that
\* its newline ends, a string the line of its opening quote.
C16_TokenLineIsLineOfFirstCharacter ==
    [][(pc = "scan_tokens" /\ pc' = "scan_tokens" /\ Len(lexer'.tokens) > Len(lexer.tokens))
          => lexer'.tokens[Len(lexer'.tokens)].line = LineAt(lexer.source, lexer'.start)]_vars

\* C16, the case: of  purr "a<newline>b"<newline>...  the string that opens
\* on line 1 is recorded on line 2, where it closes, and the newline that
\* ends line 2 is recorded on line 3.
C16_TokenLineIsLineAfterScan ==
    /\ lexer.source = Src_multiline_string
    /\ pc = "done"
    /\ lexer.tokens[2].type = "STRING" /\ lexer.tokens[2].line = 2
    /\ lexer.tokens[3].type = "NEWLINE" /\ lexer.tokens[3].line = 3
    /\ LineAt(lexer.source, 5) = 1 /\ lexer.source[6] = "\""
    /\ LineAt(lexer.source, 10) = 2 /\ lexer.source[11] = NL

\* an iteration of the loop of parse() whose declaration was dropped
DeclarationDropped ==
    /\ pc = "parse" /\ pc' = "parse"
    /\ ~match(parser, {"NEWLINE"})
    /\ statements' = statements

\* purr n, for a whole number n
PrintsNumber(stmt, n) ==
    /\ stmt.class = "Print"
    /\ stmt.expression = Literal(NumV(FALSE, n, 1))

\* C17: recovery drops the offending declaration and nothing else.  The
\* parser that has dropped a declaration stands just past a NEWLINE, at a
\* keyword that starts a statement, or at EOF; and of the program whose
\* function header on line 1 fails to parse, with the body purr 1 on line
\* 2, the closing brace on line 3 and purr 2 on line 4, parse() returns
\* purr 2 and no statement of the body.
C17_RecoveryDropsOnlyOffendingDeclaration ==
    /\ [][DeclarationDropped
            => \/ is_at_end(parser')
               \/ previous(parser').type = "NEWLINE"
               \/ peek(parser').type \in SyncKeywords]_vars
    /\ [](lexer.source = Src_error_function_header /\ pc = "done"
            => Len(statements) = 1 /\ PrintsNumber(statements[1], 2))

\* C17, the case: the body of the function whose header failed has been
\* returned as a top-level statement of its own, and has been run.
C17_BodyOfDroppedFunctionReturned ==
    /\ lexer.source = Src_error_function_header
    /\ pc = "done"
    /\ parser.had_error
    /\ Len(statements) = 2
    /\ PrintsNumber(statements[1], 1)
    /\ PrintsNumber(statements[2], 2)
    /\ stdout = <<<<"1">>, <<"2">>>>

\* a declaration is about to bind its name: meow x without initializer,
\* meow x = e with e evaluated, or prrr x
Declaring ==
    \/ Returning("visit_var_stmt")
    \/ Executing("Var") /\ ctl.node.initializer.class = "None"
    \/ Executing("Function")

DeclaredName ==
    IF Returning("visit_var_stmt") THEN Top.stmt.name.lexeme ELSE ctl.node.name.lexeme

\* C18: a declaration binds its name in the current environment only: no
\* other environment changes, in particular an enclosing binding of the
\* same name keeps its value, and the current environment changes at that
\* name only; declaring a name that the current environment already holds
\* replaces the binding and raises nothing.  A variable resolves to the
\* innermost binding on the current chain.  The program that declares a
\* as 1, then in a block a as 2, prints it, declares a as 3, prints it,
\* declares a function a, and after the block prints a, declares a as 4
\* and prints a, prints 2, 3, 1, 4.
C18_Shadowing ==
    /\ [][Declaring
            => LET x == DeclaredName
                   cur == interpreter.environment
               IN /\ Len(envs') = Len(envs)
                  /\ \A e \in 1..Len(envs) : e # cur => envs'[e] = envs[e]
                  /\ envs'[cur].enclosing = envs[cur].enclosing
                  /\ DOMAIN envs'[cur].values = DOMAIN envs[cur].values \cup {x}
                  /\ \A n \in DOMAIN envs[cur].values \ {x} :
                         envs'[cur].values[n] = envs[cur].values[n]
                  /\ envs'[cur].values[x] =
                         IF Executing("Function") THEN FnV(Len(funcs'))
                         ELSE IF Executing("Var") THEN None ELSE ctl.value
                  /\ ctl' = ReturnValue(None)]_vars
    /\ [][(Evaluating("Variable") /\ Binders(ctl.node.name.lexeme) # {})
            => LET x == ctl.node.name.lexeme
                   chain == Chain(interpreter.environment)
                   holder == chain[CHOOSE i \in Binders(x) : \A j \in Binders(x) : i <= j]
               IN ctl' = ReturnValue(envs[holder].values[x])]_vars
    /\ [](pc = "done" /\ lexer.source = Src_shadow
            => stdout = <<<<"2">>, <<"3">>, <<"1">>, <<"4">>>>)

\* C18, the case: inside the block a has been declared twice and then as
\* a function, and the global a is still 1.
C18_ShadowedInBlock ==
    /\ lexer.source = Src_shadow
    /\ pc = "interpret"
    /\ interpreter.environment = 2
    /\ envs[2].enclosing = 1
    /\ <<"a">> \in DOMAIN envs[2].values
    /\ envs[2].values[<<"a">>].kind = "fn"
    /\ envs[1].values[<<"a">>] = NumV(FALSE, 1, 1)
    /\ stdout = <<<<"2">>, <<"3">>>>

\* the parser with the cursor at token k (0-based)
ParserAt(k) == [parser EXCEPT !.current = k]

\* the tokens are those that scan_tokens returned: one EOF, in the last place
EndsWithOneEOF ==
    /\ parser.tokens # <<>>
    /\ \A i \in 1..Len(parser.tokens) : parser.tokens[i].type = "EOF" <=> i = Len(parser.tokens)

\* C19: parse() terminates with the cursor at EOF.  While parse() runs and
\* after it, the cursor is on a token, never past EOF.  One iteration of
\* the top-level loop or of the block loop, entered with the cursor
\* anywhere before EOF, either skips a NEWLINE or calls declaration(),
\* which raises nothing, leaves the cursor on a token and has moved it
\* forward by at least one; so the loops end.  No ParseError reaches
\* run(), and once parse() has returned the cursor is at EOF.
C19_ParserTerminates ==
    /\ [](pc # "scan_tokens" /\ parser.tokens # <<>>
            => EndsWithOneEOF /\ parser.current \in 0..(Len(parser.tokens) - 1))
    /\ [](pc = "parse" /\ parser.current = 0
            => \A k \in 0..(Len(parser.tokens) - 2) :
                   \/ match(ParserAt(k), {"NEWLINE"})
                   \/ /\ ~declaration(ParserAt(k)).raised
                      /\ declaration(ParserAt(k)).p.current \in (k + 1)..(Len(parser.tokens) - 1))
    /\ [][pc = "parse" => parser'.current >= parser.current]_vars
    /\ [](raised.class # "ParseError" /\ (ctl.op = "raise" => ctl.exception.class # "ParseError"))
    /\ [](pc \notin {"scan_tokens", "parse"} /\ parser.tokens # <<>> => is_at_end(parser))

\* C19, the case: parse() has returned for the program with a block that
\* is never closed: the cursor is at EOF, the error is recorded, and the
\* lines swallowed into the block are not returned.
C19_UnclosedBlockParsed ==
    /\ lexer.source = Src_error_unclosed_block
    /\ pc = "done"
    /\ parser.had_error
    /\ is_at_end(parser) /\ parser.current = Len(parser.tokens) - 1
    /\ Len(statements) = 1

=============================================================================
